---- MODULE Spec2Model ----
(***************************************************************************)
(* Model of the QuorumClock engine, its verification gateway and the       *)
(* Lamport adapter (src/src/boson.rs), of the crypto provider they rely on *)
(* (src/src/crypto.rs), of the event loop with its timers                  *)
(* (src/src/event/session.rs) and of the recursive clock (src/src/lib.rs). *)
(*                                                                         *)
(* The plain vector clock (cops::DefaultVersion with dep_cmp and update)   *)
(* lives in a module of the repository whose source is not available; it   *)
(* is modelled from the specification's data model.                        *)
(***************************************************************************)
EXTENDS Integers, Sequences, FiniteSets, Bags, TLC

VARIABLES
    num_faulty,         \* QuorumClient.num_faulty / the f handed to verify
    num_servers,        \* number of quorum servers = length of Crypto.public_keys
    flavor,             \* CryptoFlavor every node's Crypto was built with
    working_announces,  \* QuorumClient.working_announces : id -> WorkingAnnounce
    upcall,             \* events sent on QuorumClient.upcall, oldest first
    net,                \* messages sent on QuorumClient.net, oldest first
    crypto_worker,      \* signing tasks submitted by the servers, not yet run
    pending,            \* broadcast announces not yet received: <<server, index in net>>
    inbox,              \* signed AnnounceOk in flight to the client
    result,             \* the handler run by the last step, where it returned, its result
    vclock,             \* the clock QuorumClock::verify was last applied to
    vresult,            \* the outcome of that call
    batch,              \* the indexes and signed messages verify_batched was last applied to
    bresult,            \* the outcome of that call
    verify_worker,      \* VerifyQuorumClock.crypto_worker: messages whose task has not run yet
    handed,             \* messages handed to VerifyQuorumClock::send, oldest first
    forwarded,          \* messages the worker sent on to the inner handler, oldest first
    receiver,           \* Session.receiver: the events in the channel, oldest first
    handles,            \* SessionTimer.handles: ids of the live timers
    timer_id,           \* SessionTimer.id: the id the last set returned
    sessions,           \* SessionTimer.sessions: the timer tasks and their states
    pc,                 \* where Session::run stands
    calls,              \* the handler calls made by Session::run, oldest first
    enqueued,           \* number of events sent on the session channel so far
    senders,            \* Sender handles held outside the Session
    lamport_id,         \* Lamport.1: the identity the adapter submits under
    lamport_in,         \* the event last handed to the Lamport adapter, and how many were
    lamport_out,        \* events the Lamport adapter sent on Lamport.0, oldest first
    keys,               \* the keys the inductive clock circuit was built with
    circuit,            \* Clock::genesis: inner_circuit, then the circuit it returned
    gclock,             \* Clock::genesis: the clock proved so far
    iterations,         \* Clock::genesis: where the call stands
    held,               \* the recursive clocks the application holds
    cresult             \* the last call on a recursive clock and its outcome

vars == <<num_faulty, num_servers, flavor, working_announces, upcall, net,
          crypto_worker, pending, inbox, result, vclock, vresult, batch, bresult,
          verify_worker, handed, forwarded,
          receiver, handles, timer_id, sessions, pc, calls, enqueued, senders,
          lamport_id, lamport_in, lamport_out,
          keys, circuit, gclock, iterations, held, cresult>>

clientVars == <<working_announces, upcall, net>>
serverVars == <<crypto_worker, pending, inbox>>
configVars == <<num_faulty, num_servers, flavor>>
verifyVars == <<vclock, vresult>>
batchVars == <<batch, bresult>>
gatewayVars == <<verify_worker, handed, forwarded>>
sessionVars == <<receiver, handles, timer_id, sessions, pc, calls, enqueued, senders>>
adapterVars == <<lamport_id, lamport_in, lamport_out>>
clockVars == <<keys, circuit, gclock, iterations, held, cresult>>

----------------------------------------------------------------------------
(* Bounds of the model *)

MaxCounter == 2     \* largest counter a plain clock holds in the model
MaxFaulty == 1      \* num_faulty ranges over 0..MaxFaulty
MaxServers == 2     \* servers of the general specification
MaxSubmits == 2     \* SubmitAnnounce events handled in one behaviour
MaxTasks == 1       \* signing tasks pending in the worker at once
MaxInbox == 1       \* replies in flight to the client at once
MaxCert == 2        \* longest cert of the clocks handed to verify
MaxBatch == 2       \* longest list of indexes or of signed messages handed to verify_batched
MaxDeps == 2        \* most clocks a gateway message carries besides prev
MaxHanded == 2      \* messages handed to the gateway in one behaviour
MaxTimers == 2      \* timers set in one behaviour
MaxEvents == 4      \* events sent on the session channel in one behaviour
MaxSenders == 2     \* Sender handles held outside the Session at once
MaxAdapter == 2     \* events handed to the Lamport adapter

----------------------------------------------------------------------------
(* cops::DefaultVersion, a vector clock over the coordinates KeyIds *)

KeyIds == {7, 8}

Plains == [KeyIds -> 0..MaxCounter]

DefaultVersion == [k \in KeyIds |-> 0]

Max(a, b) == IF a >= b THEN a ELSE b

Cmp(a, b) == IF a < b THEN -1 ELSE IF a = b THEN 0 ELSE 1

\* DepOrd::dep_cmp for DefaultVersion: the order of the id coordinate
PlainDepCmp(self, other, id) == Cmp(self[id], other[id])

RECURSIVE PlainMerge(_, _)
PlainMerge(self, others) ==
    IF others = <<>> THEN self
    ELSE PlainMerge([k \in KeyIds |-> Max(self[k], Head(others)[k])], Tail(others))

\* DefaultVersion::update: coordinate-wise max, id coordinate incremented
PlainUpdate(self, others, id) ==
    LET merged == PlainMerge(self, others)
    IN  [merged EXCEPT ![id] = @ + 1]

----------------------------------------------------------------------------
(* crypto.rs *)

Flavors == {"Plain", "Secp256k1", "Schnorrkel"}

\* Crypto::new_hardcoded(n, index, flavor)
NewHardcoded(n, index, fl) ==
    [provider |-> fl, index |-> index, public_keys |-> [i \in 0..(n - 1) |-> i]]

\* DigestHash::sha256: the digest of the fields fed to the hasher in order
Sha256(message) == <<message.plain, message.id, message.signer_id>>

\* Crypto::sign
Sign(crypto, message) ==
    IF crypto.provider = "Plain"
    THEN [inner |-> message,
          signature |-> [flavor |-> "Plain", key |-> crypto.index, digest |-> <<>>]]
    ELSE [inner |-> message,
          signature |-> [flavor |-> crypto.provider, key |-> crypto.index,
                         digest |-> Sha256(message)]]

\* schnorrkel / secp256k1 signature check: made by the key, over this message
SignatureValid(public_key, message, signature) ==
    /\ signature.key = public_key
    /\ signature.digest = Sha256(message)

\* Crypto::verify
CryptoVerify(crypto, index, signed) ==
    IF index \notin DOMAIN crypto.public_keys THEN "Err"
    ELSE IF crypto.provider # signed.signature.flavor THEN "Err"
    ELSE IF crypto.provider = "Plain"
         THEN IF signed.signature.key = crypto.public_keys[index] THEN "Ok" ELSE "Err"
    ELSE IF SignatureValid(crypto.public_keys[index], signed.inner, signed.signature)
         THEN "Ok" ELSE "Err"

\* a batch check that passes as soon as one signature of the batch is valid
BatchSignaturesAny(crypto, indexes, signed, n) ==
    \E k \in 1..n :
        SignatureValid(crypto.public_keys[indexes[k]], signed[k].inner, signed[k].signature)

\* schnorrkel::verify_batch over the first n pairs: every signature is valid under its key
BatchSignatures(crypto, indexes, signed, n) ==
    \A k \in 1..n :
        SignatureValid(crypto.public_keys[indexes[k]], signed[k].inner, signed[k].signature)

\* verify_batched falling back to verify, pair by pair
VerifyBatchedFallback(crypto, indexes, signed) ==
    LET n == IF Len(indexes) <= Len(signed) THEN Len(indexes) ELSE Len(signed)
    IN  IF \A k \in 1..n : CryptoVerify(crypto, indexes[k], signed[k]) = "Ok"
        THEN "Ok" ELSE "Err"

\* Crypto::verify_batched
VerifyBatched(crypto, indexes, signed) ==
    IF crypto.provider # "Schnorrkel" THEN "Err"
    ELSE LET n == IF Len(indexes) <= Len(signed) THEN Len(indexes) ELSE Len(signed)
             Bad(k) ==
                 \/ indexes[k] \notin DOMAIN crypto.public_keys
                 \/ signed[k].signature.flavor # "Schnorrkel"
         IN  IF \E k \in 1..n : Bad(k)
             THEN LET first == CHOOSE k \in 1..n : Bad(k) /\ \A j \in 1..(k - 1) : ~Bad(j)
                  IN  IF indexes[first] \notin DOMAIN crypto.public_keys
                      THEN "Panic" ELSE "Err"
             ELSE IF BatchSignatures(crypto, indexes, signed, n)
                  THEN "Ok" ELSE "Err"

----------------------------------------------------------------------------
(* boson.rs: QuorumClock *)

DefaultClock == [plain |-> DefaultVersion, cert |-> <<>>]

\* DepOrd::dep_cmp for QuorumClock
DepCmp(self, other, id) == PlainDepCmp(self.plain, other.plain, id)

\* the sanity check of a default clock, left out
GenesisCheckSkipped(self) == "Ok"

\* the sanity check of a default clock: ensure!(self.cert.is_empty())
GenesisCheck(self) == IF self.cert = <<>> THEN "Ok" ELSE "Err"

\* a cert counted as sufficient from num_faulty entries on
CertSufficientGe(self, f) == Len(self.cert) >= f

\* ensure!(self.cert.len() > num_faulty)
CertSufficient(self, f) == Len(self.cert) > f

\* the signer ids verify hands to verify_batched as key indexes
SignerIds(cert) == [k \in 1..Len(cert) |-> cert[k].inner.signer_id]

\* QuorumClock::verify
Verify(self, f, crypto) ==
    IF self.plain = DefaultVersion THEN GenesisCheck(self)
    ELSE IF ~CertSufficient(self, f) THEN "Err"
    ELSE VerifyBatched(crypto, SignerIds(self.cert), self.cert)

----------------------------------------------------------------------------
(* boson.rs: QuorumClient *)

Addr == "client"

Servers == 0..(num_servers - 1)

\* servers the fault model lets misbehave: at most num_faulty of them
Byzantine == {s \in Servers : s < num_faulty}

Range(f) == {f[x] : x \in DOMAIN f}

\* HashMap::remove
Remove(map, key) == [k \in DOMAIN map \ {key} |-> map[k]]

\* HashMap::insert
Insert(map, key, value) == [k \in DOMAIN map \cup {key} |-> IF k = key THEN value ELSE map[k]]

\* the orders in which HashMap::into_values().collect() may yield the replies
CertOrders(replies) ==
    {c \in [1..Cardinality(DOMAIN replies) -> Range(replies)] :
        \A s \in DOMAIN replies : \E k \in DOMAIN c : c[k] = replies[s]}

Returned(op, id, at, value) == [op |-> op, id |-> id, at |-> at, value |-> value]

\* self.working_announces.insert(..) returned Some: an entry for id was in flight
ReplacedNever(id) == FALSE

Replaced(id) == id \in DOMAIN working_announces

\* net.send(All, announce): one message on the wire, to be received by every server
NetSendAll(announce) ==
    /\ net' = Append(net, [dest |-> "All", message |-> announce])
    /\ pending' = pending \cup {<<s, Len(net) + 1>> : s \in Servers}

\* OnEvent<SubmitAnnounce> for QuorumClient
SubmitAnnounce(prev, merged, id) ==
    LET announce == [prev |-> prev, merged |-> merged, id |-> id, addr |-> Addr]
    IN  /\ working_announces' =
               Insert(working_announces, id, [prev_plain |-> prev.plain, replies |-> <<>>])
        /\ IF Replaced(id)
           THEN /\ UNCHANGED <<net, pending>>
                /\ result' = Returned("SubmitAnnounce", id, "concurrent", "Err")
           ELSE /\ NetSendAll(announce)
                /\ result' = Returned("SubmitAnnounce", id, "sent", "Ok")
        /\ UNCHANGED <<upcall, crypto_worker, inbox, configVars, adapterVars, clockVars, verifyVars, batchVars,
                     gatewayVars, sessionVars>>

\* the reply's id has no entry in working_announces: return Ok(())
DropLateErr(announce_ok) ==
    /\ result' = Returned("RecvAnnounceOk", announce_ok.inner.id, "late", "Err")
    /\ UNCHANGED <<working_announces, upcall>>

DropLate(announce_ok) ==
    /\ result' = Returned("RecvAnnounceOk", announce_ok.inner.id, "late", "Ok")
    /\ UNCHANGED <<working_announces, upcall>>

\* announce_ok.plain.dep_cmp(&working_state.prev_plain, announce_ok.id).is_le()
NotAdvancingLt(announce_ok, prev_plain) ==
    PlainDepCmp(announce_ok.inner.plain, prev_plain, announce_ok.inner.id) < 0

NotAdvancing(announce_ok, prev_plain) ==
    PlainDepCmp(announce_ok.inner.plain, prev_plain, announce_ok.inner.id) <= 0

\* the reply does not advance prev_plain: return Ok(())
DropStaleEvict(announce_ok) ==
    /\ result' = Returned("RecvAnnounceOk", announce_ok.inner.id, "stale", "Ok")
    /\ working_announces' = Remove(working_announces, announce_ok.inner.id)
    /\ upcall' = upcall

DropStale(announce_ok) ==
    /\ result' = Returned("RecvAnnounceOk", announce_ok.inner.id, "stale", "Ok")
    /\ UNCHANGED <<working_announces, upcall>>

\* working_state.replies.len() > self.num_faulty
QuorumReachedGe(replies) == Cardinality(DOMAIN replies) >= num_faulty

QuorumReached(replies) == Cardinality(DOMAIN replies) > num_faulty

\* a client that upcalls on quorum and leaves the entry of the id in flight
CollectKeep(announce_ok) ==
    LET id == announce_ok.inner.id
        replies == Insert(working_announces[id].replies, announce_ok.inner.signer_id,
                          announce_ok)
    IN  /\ working_announces' = [working_announces EXCEPT ![id].replies = replies]
        /\ IF QuorumReached(replies)
           THEN /\ \E cert \in CertOrders(replies) :
                      upcall' = Append(upcall,
                                       <<id, [plain |-> announce_ok.inner.plain, cert |-> cert]>>)
                /\ result' = Returned("RecvAnnounceOk", id, "quorum", "Ok")
           ELSE /\ upcall' = upcall
                /\ result' = Returned("RecvAnnounceOk", id, "stored", "Ok")

\* a client that stores replies by order of arrival instead of by signer_id
CollectByArrival(announce_ok) ==
    LET id == announce_ok.inner.id
        stored == working_announces[id].replies
        replies == Insert(stored, Cardinality(DOMAIN stored), announce_ok)
    IN  IF QuorumReached(replies)
        THEN /\ working_announces' = Remove(working_announces, id)
             /\ \E cert \in CertOrders(replies) :
                   upcall' = Append(upcall,
                                    <<id, [plain |-> announce_ok.inner.plain, cert |-> cert]>>)
             /\ result' = Returned("RecvAnnounceOk", id, "quorum", "Ok")
        ELSE /\ working_announces' = [working_announces EXCEPT ![id].replies = replies]
             /\ upcall' = upcall
             /\ result' = Returned("RecvAnnounceOk", id, "stored", "Ok")

\* the reply is stored; on quorum the entry is removed and the clock upcalled
Collect(announce_ok) ==
    LET id == announce_ok.inner.id
        replies == Insert(working_announces[id].replies, announce_ok.inner.signer_id,
                          announce_ok)
    IN  IF QuorumReached(replies)
        THEN /\ working_announces' = Remove(working_announces, id)
             /\ \E cert \in CertOrders(replies) :
                   upcall' = Append(upcall,
                                    <<id, [plain |-> announce_ok.inner.plain, cert |-> cert]>>)
             /\ result' = Returned("RecvAnnounceOk", id, "quorum", "Ok")
        ELSE /\ working_announces' = [working_announces EXCEPT ![id].replies = replies]
             /\ upcall' = upcall
             /\ result' = Returned("RecvAnnounceOk", id, "stored", "Ok")

\* OnEvent<Recv<Verifiable<AnnounceOk>>> for QuorumClient
RecvAnnounceOk(announce_ok) ==
    /\ IF announce_ok.inner.id \notin DOMAIN working_announces
       THEN DropLate(announce_ok)
       ELSE IF NotAdvancing(announce_ok,
                            working_announces[announce_ok.inner.id].prev_plain)
            THEN DropStale(announce_ok)
            ELSE Collect(announce_ok)
    /\ UNCHANGED <<net, pending, crypto_worker, configVars, adapterVars, clockVars, verifyVars, batchVars,
                 gatewayVars, sessionVars>>

----------------------------------------------------------------------------
(* boson.rs: QuorumServer and the crypto worker *)

\* the AnnounceOk the server builds, with the merged clocks left out of the update
ServerAnnounceOkPrevOnly(self_id, announce) ==
    [plain |-> PlainUpdate(announce.prev.plain, <<>>, announce.id),
     id |-> announce.id, signer_id |-> self_id]

\* the AnnounceOk the server builds from an announce
ServerAnnounceOk(self_id, announce) ==
    [plain |-> PlainUpdate(announce.prev.plain,
                           [k \in 1..Len(announce.merged) |-> announce.merged[k].plain],
                           announce.id),
     id |-> announce.id, signer_id |-> self_id]

\* a server that verifies prev before it signs, and refuses an announce whose prev fails
ServerRecvAnnounceCertified(self_id, announce) ==
    IF Verify(announce.prev, num_faulty, NewHardcoded(num_servers, self_id, flavor)) = "Ok"
    THEN /\ crypto_worker' = crypto_worker (+)
                SetToBag({[server |-> self_id, addr |-> announce.addr,
                           announce_ok |-> ServerAnnounceOk(self_id, announce)]})
         /\ result' = Returned("RecvAnnounce", announce.id, "submitted", "Ok")
         /\ UNCHANGED <<clientVars, inbox, configVars, adapterVars, clockVars, verifyVars, batchVars,
                      gatewayVars, sessionVars>>
    ELSE /\ result' = Returned("RecvAnnounce", announce.id, "uncertified", "Err")
         /\ UNCHANGED <<clientVars, crypto_worker, inbox, configVars, adapterVars, clockVars,
                      verifyVars, batchVars, gatewayVars, sessionVars>>

\* OnEvent<Recv<Announce<A>>> for QuorumServer
ServerRecvAnnounce(self_id, announce) ==
    LET announce_ok == ServerAnnounceOk(self_id, announce)
    IN  /\ crypto_worker' = crypto_worker (+)
               SetToBag({[server |-> self_id, addr |-> announce.addr, announce_ok |-> announce_ok]})
        /\ result' = Returned("RecvAnnounce", announce.id, "submitted", "Ok")
        /\ UNCHANGED <<clientVars, inbox, configVars, adapterVars, clockVars, verifyVars, batchVars,
                     gatewayVars, sessionVars>>

\* the closure submitted by the server: net.send(announce.addr, crypto.sign(announce_ok))
WorkerSign(task) ==
    LET crypto == NewHardcoded(num_servers, task.server, flavor)
    IN  /\ crypto_worker' = crypto_worker (-) SetToBag({task})
        /\ inbox' = inbox (+) SetToBag({[dest |-> task.addr,
                                       message |-> Sign(crypto, task.announce_ok)]})
        /\ result' = Returned("WorkerSign", task.announce_ok.id, "sent", "Ok")
        /\ UNCHANGED <<clientVars, pending, configVars, adapterVars, clockVars, verifyVars, batchVars,
                     gatewayVars, sessionVars>>

----------------------------------------------------------------------------
(* The quorum protocol: one client, its servers, an asynchronous network *)

\* clocks an application may hand to SubmitAnnounce
InputClocks == {DefaultClock} \cup {upcall[k][2] : k \in DOMAIN upcall}

\* dependency lists an application may hand to SubmitAnnounce
InputMerged == {<<>>} \cup {<<upcall[k][2]>> : k \in DOMAIN upcall \cap {Len(upcall)}}

\* a reply a Byzantine server can put on the wire under its own identity: any id and
\* any counter for it, signed with its own key
Forge(b, id, counter) ==
    LET announce_ok == [plain |-> [DefaultVersion EXCEPT ![id] = counter],
                        id |-> id, signer_id |-> b]
    IN  [inner |-> announce_ok,
         signature |-> Sign(NewHardcoded(num_servers, b, flavor), announce_ok).signature]

\* every reply the network can hand to the client in the current state
Deliverable ==
    {m.message : m \in BagToSet(inbox)} \cup
    {Forge(b, id, counter) : b \in Byzantine, id \in KeyIds, counter \in 0..MaxCounter}

InitClient ==
    /\ working_announces = <<>>
    /\ upcall = <<>>
    /\ net = <<>>
    /\ crypto_worker = EmptyBag
    /\ pending = {}
    /\ inbox = EmptyBag
    /\ result = Returned("None", 0, "none", "None")

InitVerify ==
    /\ vclock = DefaultClock
    /\ vresult = "None"

InitBatch ==
    /\ batch = [indexes |-> <<>>, signed |-> <<>>]
    /\ bresult = "None"

\* VerifyQuorumClock::new: nothing handed over yet
InitGateway ==
    /\ verify_worker = EmptyBag
    /\ handed = <<>>
    /\ forwarded = <<>>

NoEvent == [kind |-> "None", arg |-> 0, seq |-> 0]

NoCircuit == [depth |-> -1, keys |-> <<>>, dummy_key |-> <<>>]

NoProof == [circuit |-> NoCircuit, attested |-> <<>>, public_inputs |-> <<>>]

NoClock == [proof |-> NoProof]

\* Session::new: an empty channel and no timer
InitSession ==
    /\ receiver = <<>>
    /\ handles = {}
    /\ timer_id = 0
    /\ sessions = <<>>
    /\ pc = [at |-> "new", event |-> NoEvent]
    /\ calls = <<>>
    /\ enqueued = 0
    /\ senders = 0

\* no Lamport adapter is wired
InitAdapter ==
    /\ lamport_id = 0
    /\ lamport_in = [n |-> 0, event |-> NoEvent]
    /\ lamport_out = <<>>

\* Clock::genesis has not been called
InitClock ==
    /\ keys = <<>>
    /\ circuit = NoCircuit
    /\ gclock = NoClock
    /\ iterations = [at |-> "none", n |-> 0]
    /\ held = {}
    /\ cresult = [op |-> "None"]

Init ==
    /\ num_faulty \in 0..MaxFaulty
    /\ num_servers = MaxServers
    /\ flavor = "Schnorrkel"
    /\ InitClient
    /\ InitVerify
    /\ InitBatch
    /\ InitGateway
    /\ InitSession
    /\ InitAdapter
    /\ InitClock

\* the application submits an announce
Submit ==
    \E prev \in InputClocks, id \in KeyIds :
        \E merged \in InputMerged :
            /\ id \in DOMAIN working_announces \/ Len(net) < MaxSubmits
            /\ PlainUpdate(prev.plain, [k \in 1..Len(merged) |-> merged[k].plain], id) \in Plains
            /\ SubmitAnnounce(prev, merged, id)

\* the network hands a broadcast announce to a server
DeliverAnnounce ==
    \E d \in pending :
        /\ BagCardinality(crypto_worker) < MaxTasks
        /\ ServerRecvAnnounce(d[1], net[d[2]].message)
        /\ pending' = pending \ {d}

\* the worker pool runs a signing task
RunWorker ==
    \E task \in BagToSet(crypto_worker) :
        /\ BagCardinality(inbox) < MaxInbox
        /\ WorkerSign(task)

\* the network hands a server's reply to the client
DeliverAnnounceOk ==
    \E m \in BagToSet(inbox) :
        /\ RecvAnnounceOk(m.message)
        /\ inbox' = inbox (-) SetToBag({m})

\* a Byzantine server sends the client a reply of its choice
DeliverForged ==
    \E b \in Byzantine, id \in KeyIds, counter \in 0..MaxCounter :
        /\ RecvAnnounceOk(Forge(b, id, counter))
        /\ inbox' = inbox

Next ==
    \/ Submit
    \/ DeliverAnnounce
    \/ RunWorker
    \/ DeliverAnnounceOk
    \/ DeliverForged

Spec == Init /\ [][Next]_vars
----------------------------------------------------------------------------
(* QuorumClock::verify applied to clocks received from the network *)

\* the Crypto the verifying node holds
VerifierCrypto == NewHardcoded(num_servers, 0, flavor)

\* AnnounceOk values a received cert may hold; signer_id = num_servers is not in the key table
CertMessages ==
    {[plain |-> [DefaultVersion EXCEPT ![id] = c], id |-> id, signer_id |-> signer_id] :
        id \in KeyIds, c \in 1..MaxCounter, signer_id \in 0..num_servers}

\* cert entries: each message with a signature some server made over it, of any flavor
CertEntries ==
    {[inner |-> m, signature |-> Sign(NewHardcoded(num_servers, key, fl), m).signature] :
        m \in CertMessages, key \in Servers, fl \in Flavors}

CertsUpTo(n) == UNION {[1..k -> CertEntries] : k \in 0..n}

\* clocks handed to verify: the default or an advanced plain with any cert up to MaxCert
VerifyInputs ==
    {[plain |-> p, cert |-> cert] :
        p \in {DefaultVersion} \cup {m.plain : m \in CertMessages},
        cert \in CertsUpTo(MaxCert)}

\* a node calls clock.verify(num_faulty, crypto) and keeps the outcome
ApplyVerify(clock) ==
    /\ vresult = "None"
    /\ vclock' = clock
    /\ vresult' = Verify(clock, num_faulty, NewHardcoded(num_servers, 0, flavor))
    /\ UNCHANGED <<clientVars, serverVars, result, configVars, adapterVars, clockVars, batchVars, gatewayVars,
                   sessionVars>>

InitVerifier ==
    /\ num_faulty \in 0..MaxFaulty
    /\ num_servers = MaxServers
    /\ flavor \in Flavors
    /\ InitClient
    /\ InitVerify
    /\ InitBatch
    /\ InitGateway
    /\ InitSession
    /\ InitAdapter
    /\ InitClock

\* a clock arrives from the network and is verified
VerifyReceived ==
    /\ vresult = "None"
    /\ \E clock \in VerifyInputs : ApplyVerify(clock)

NextVerify == VerifyReceived

SpecVerify == InitVerifier /\ [][NextVerify]_vars

----------------------------------------------------------------------------
(* Crypto::verify_batched applied to lists of indexes and of signed messages *)

\* the nodes of the verify_batched test
TestNodes == 4

\* the message the test signs, and another one
Hello == [plain |-> DefaultVersion, id |-> 7, signer_id |-> 0]

Tampered == [plain |-> DefaultVersion, id |-> 8, signer_id |-> 0]

\* Hello carrying a signature a node made over Hello or over Tampered, of either flavor
BatchEntries ==
    {[inner |-> Hello, signature |-> Sign(NewHardcoded(num_servers, key, fl), m).signature] :
        key \in Servers, fl \in {"Plain", "Schnorrkel"}, m \in {Hello, Tampered}}

\* key indexes; num_servers is not in the key table
BatchIndexes == 0..num_servers

SeqsUpTo(S, n) == UNION {[1..k -> S] : k \in 0..n}

\* the test's signed messages: every node signs Hello with the provider in use
TestSigned == [k \in 1..TestNodes |-> Sign(NewHardcoded(num_servers, k - 1, flavor), Hello)]

TestIndexes == [k \in 1..TestNodes |-> k - 1]

\* a node calls crypto.verify_batched(indexes, signed) and keeps the outcome
ApplyVerifyBatched(indexes, signed) ==
    /\ batch' = [indexes |-> indexes, signed |-> signed]
    /\ bresult' = VerifyBatched(VerifierCrypto, indexes, signed)
    /\ UNCHANGED <<clientVars, serverVars, result, configVars, adapterVars, clockVars, verifyVars, gatewayVars,
                   sessionVars>>

InitBatcher ==
    /\ num_faulty = 0
    /\ num_servers = TestNodes
    /\ flavor \in Flavors
    /\ InitClient
    /\ InitVerify
    /\ InitBatch
    /\ InitGateway
    /\ InitSession
    /\ InitAdapter
    /\ InitClock

\* a batch of any indexes and signed messages is verified
BatchReceived ==
    /\ bresult = "None"
    /\ \E indexes \in SeqsUpTo(BatchIndexes, MaxBatch), signed \in SeqsUpTo(BatchEntries, MaxBatch) :
           ApplyVerifyBatched(indexes, signed)

\* the test's signed messages are verified against a list of TestNodes indexes
BatchTest ==
    /\ bresult = "None"
    /\ \E indexes \in [1..TestNodes -> Servers] : ApplyVerifyBatched(indexes, TestSigned)

NextBatch ==
    \/ BatchReceived
    \/ BatchTest

SpecBatch == InitBatcher /\ [][NextBatch]_vars

----------------------------------------------------------------------------
(* boson.rs: the VerifyQuorumClock gateway and the VerifyClock implementations *)

\* the first failure of clock.verify(num_faulty, crypto)? over the clocks in order
RECURSIVE VerifyEach(_, _, _)
VerifyEach(clocks, f, crypto) ==
    IF clocks = <<>> THEN "Ok"
    ELSE LET r == Verify(Head(clocks), f, crypto)
         IN  IF r # "Ok" THEN r ELSE VerifyEach(Tail(clocks), f, crypto)

\* verify_clock of an Announce that looks at prev only
VerifyAnnouncePrevOnly(message, f, crypto) == Verify(message.prev, f, crypto)

\* VerifyClock for Announce<A>
VerifyAnnounce(message, f, crypto) ==
    LET r == Verify(message.prev, f, crypto)
    IN  IF r # "Ok" THEN r ELSE VerifyEach(message.merged, f, crypto)

\* VerifyClock::verify_clock, by the kind of message
VerifyClock(message, f, crypto) ==
    CASE message.kind = "Announce" -> VerifyAnnounce(message, f, crypto)
      [] message.kind \in {"Clocked", "PutOk", "GetOk", "SyncKey"} ->
            Verify(message.clock, f, crypto)
      [] message.kind = "Put" -> VerifyEach(message.deps, f, crypto)
      [] message.kind = "Get" -> "Ok"

\* SendEvent<Recv<M>> for VerifyQuorumClock: the task is submitted to the crypto worker
GatewaySend(message) ==
    /\ verify_worker' = verify_worker (+) SetToBag({message})
    /\ handed' = Append(handed, message)
    /\ forwarded' = forwarded
    /\ result' = Returned("GatewaySend", 0, "submitted", "Ok")
    /\ UNCHANGED <<clientVars, serverVars, configVars, adapterVars, clockVars, verifyVars, batchVars, sessionVars>>

\* sender.send(Recv(message)) made for every message, verified or not
TaskOutcomeForwardAll(message, outcome) ==
    /\ forwarded' = Append(forwarded, message)
    /\ result' = Returned("GatewayTask", 0, "forwarded", "Ok")

\* the failure branch of the closure returning the verification error
TaskOutcomeErr(message, outcome) ==
    IF outcome = "Ok"
    THEN /\ forwarded' = Append(forwarded, message)
         /\ result' = Returned("GatewayTask", 0, "forwarded", "Ok")
    ELSE /\ forwarded' = forwarded
         /\ result' = Returned("GatewayTask", 0, "dropped", outcome)

\* the closure's branches: forward on success, warn and return Ok on failure; a panic of
\* verify_clock unwinds the closure before either
TaskOutcome(message, outcome) ==
    IF outcome = "Ok"
    THEN /\ forwarded' = Append(forwarded, message)
         /\ result' = Returned("GatewayTask", 0, "forwarded", "Ok")
    ELSE IF outcome = "Err"
    THEN /\ forwarded' = forwarded
         /\ result' = Returned("GatewayTask", 0, "dropped", "Ok")
    ELSE /\ forwarded' = forwarded
         /\ result' = Returned("GatewayTask", 0, "panicked", "Panic")

\* the closure submitted by the gateway, run by the worker
GatewayTask(message) ==
    /\ verify_worker' = verify_worker (-) SetToBag({message})
    /\ handed' = handed
    /\ TaskOutcome(message, VerifyClock(message, num_faulty, VerifierCrypto))
    /\ UNCHANGED <<clientVars, serverVars, configVars, adapterVars, clockVars, verifyVars, batchVars, sessionVars>>

\* clocks that reach a gateway from the network
CertifiedPlain == [DefaultVersion EXCEPT ![7] = 1]

SignedReply(s, signer_id) ==
    LET announce_ok == [plain |-> CertifiedPlain, id |-> 7, signer_id |-> signer_id]
    IN  [inner |-> announce_ok,
         signature |-> Sign(NewHardcoded(num_servers, s, flavor), announce_ok).signature]

\* num_faulty + 1 servers signed the plain
CertifiedClock ==
    [plain |-> CertifiedPlain, cert |-> [k \in 1..(num_faulty + 1) |-> SignedReply(k - 1, k - 1)]]

\* an advanced plain nobody signed
UncertifiedClock == [plain |-> CertifiedPlain, cert |-> <<>>]

\* a cert whose first entry names a signer that is not in the key table
OutOfTableClock ==
    [plain |-> CertifiedPlain,
     cert |-> [k \in 1..(num_faulty + 1) |->
                  IF k = 1 THEN SignedReply(0, num_servers) ELSE SignedReply(k - 1, k - 1)]]

GatewayClocks == {DefaultClock, CertifiedClock, UncertifiedClock, OutOfTableClock}

GatewayMessages ==
    {[kind |-> "Announce", prev |-> prev, merged |-> merged, id |-> 7, addr |-> Addr] :
        prev \in GatewayClocks, merged \in SeqsUpTo(GatewayClocks, MaxDeps)}
    \cup {[kind |-> kind, clock |-> clock] :
              kind \in {"Clocked", "PutOk", "GetOk", "SyncKey"}, clock \in GatewayClocks}
    \cup {[kind |-> "Put", deps |-> deps] : deps \in SeqsUpTo(GatewayClocks, MaxDeps)}
    \cup {[kind |-> "Get"]}

InitGatewayNode ==
    /\ num_faulty \in 0..MaxFaulty
    /\ num_servers = MaxServers
    /\ flavor = "Schnorrkel"
    /\ InitClient
    /\ InitVerify
    /\ InitBatch
    /\ InitGateway
    /\ InitSession
    /\ InitAdapter
    /\ InitClock

\* a message arrives from the network and is handed to the gateway
GatewayRecv ==
    /\ Len(handed) < MaxHanded
    /\ \E message \in GatewayMessages : GatewaySend(message)

\* the worker runs one of the submitted tasks
GatewayRun == \E message \in BagToSet(verify_worker) : GatewayTask(message)

NextGateway ==
    \/ GatewayRecv
    \/ GatewayRun

SpecGateway == InitGatewayNode /\ [][NextGateway]_vars

----------------------------------------------------------------------------
(* event/session.rs: Session::run, SessionTimer and the tasks of the timers *)

\* payloads of the ordinary events
Payloads == {"ping", "pong"}

\* UnboundedSender::send: the event joins the channel behind those already in it
ChannelSend(kind, arg) ==
    /\ receiver' = Append(receiver, [kind |-> kind, arg |-> arg, seq |-> enqueued + 1])
    /\ enqueued' = enqueued + 1

\* a send on a channel whose receiver is gone that reports success
SendClosedOk ==
    /\ result' = Returned("send", 0, "lost", "Ok")
    /\ UNCHANGED <<receiver, enqueued>>

\* UnboundedSender::send on a channel whose receiver is gone: the error is mapped and returned
SendClosed ==
    /\ result' = Returned("send", 0, "channel closed", "Err")
    /\ UNCHANGED <<receiver, enqueued>>

\* SendEvent for Sender: Event::Other(event) is sent on the channel
SenderSend(event) ==
    /\ IF pc.at = "dropped"
       THEN SendClosed
       ELSE /\ ChannelSend("Other", event)
            /\ result' = Returned("send", enqueued + 1, "enqueued", "Ok")
    /\ UNCHANGED <<handles, timer_id, sessions, pc, calls>>
    /\ UNCHANGED <<senders, clientVars, serverVars, configVars, adapterVars, clockVars, verifyVars, batchVars,
                   gatewayVars>>

\* the task spawned by set: interval.tick().await; sender.send(timer_id); an aborted task
\* keeps running until its abort takes effect
TimerTaskSend(id) ==
    /\ sessions[id] \in {"running", "aborting"}
    /\ ChannelSend("Timer", id)
    /\ result' = Returned("tick", id, "enqueued", "Ok")
    /\ UNCHANGED <<handles, timer_id, sessions, pc, calls>>
    /\ UNCHANGED <<senders, clientVars, serverVars, configVars, adapterVars, clockVars, verifyVars, batchVars,
                   gatewayVars>>

\* the abort requested by unset takes effect: the task ends as cancelled
TimerTaskCancelled(id) ==
    /\ sessions[id] = "aborting"
    /\ sessions' = [sessions EXCEPT ![id] = "cancelled"]
    /\ UNCHANGED <<receiver, handles, timer_id, pc, calls, enqueued, result>>
    /\ UNCHANGED <<senders, clientVars, serverVars, configVars, adapterVars, clockVars, verifyVars, batchVars,
                   gatewayVars>>

\* a check at delivery that lets every timer event through
TimerLiveAlways(id) == TRUE

\* self.timer.handles.contains_key(&timer_id)
TimerLive(id) == id \in handles

\* a recv() that yields the newest event of the channel
RecvIndexLast(queue) == Len(queue)

\* self.receiver.recv(): the position in the channel of the event it yields, the oldest
RecvIndex(queue) == 1

\* the senders the Session keeps for itself: Session.sender and SessionTimer.sender
OwnSenders == 2

\* the senders of the channel: those held outside, the Session's own, one per timer task
ChannelSenders ==
    senders + OwnSenders
        + Cardinality({id \in DOMAIN sessions : sessions[id] \in {"running", "aborting"}})

\* the select arm JoinNext(Err(err)) if err.is_cancelled() => continue
RunJoinNext(id) ==
    /\ pc.at = "select"
    /\ sessions[id] = "cancelled"
    /\ sessions' = Remove(sessions, id)
    /\ result' = Returned("run", id, "joined", "Ok")
    /\ UNCHANGED <<receiver, handles, timer_id, pc, calls, enqueued>>
    /\ UNCHANGED <<senders, clientVars, serverVars, configVars, adapterVars, clockVars, verifyVars, batchVars,
                   gatewayVars>>

\* the select arm Recv(event): recv() yields the oldest event, or None once the channel is
\* empty and has no sender left, and then run returns "channel closed"; a stale timer
\* event is skipped, any other event starts the handler call on_timer or on_event
RunRecv ==
    /\ pc.at = "select"
    /\ IF receiver # <<>>
       THEN LET k == RecvIndex(receiver)
                event == receiver[k]
            IN  /\ receiver' = [j \in 1..(Len(receiver) - 1) |->
                                   IF j < k THEN receiver[j] ELSE receiver[j + 1]]
                /\ IF event.kind = "Timer" /\ ~TimerLive(event.arg)
                   THEN /\ result' = Returned("run", event.arg, "skipped", "Ok")
                        /\ UNCHANGED <<pc, calls>>
                   ELSE /\ pc' = [at |-> "handling", event |-> event]
                        /\ calls' = Append(calls, event)
                        /\ result' = Returned(IF event.kind = "Timer" THEN "on_timer"
                                                                       ELSE "on_event",
                                               event.seq, "called", "None")
       ELSE /\ ChannelSenders = 0
            /\ pc' = [at |-> "returned", event |-> NoEvent]
            /\ result' = Returned("run", 0, "channel closed", "Err")
            /\ UNCHANGED <<receiver, calls>>
    /\ UNCHANGED <<handles, timer_id, sessions, enqueued>>
    /\ UNCHANGED <<senders, clientVars, serverVars, configVars, adapterVars, clockVars, verifyVars, batchVars,
                   gatewayVars>>

\* Timer::set for SessionTimer, called by the running handler
TimerSet ==
    /\ pc.at = "handling"
    /\ timer_id' = timer_id + 1
    /\ sessions' = Insert(sessions, timer_id + 1, "running")
    /\ handles' = handles \cup {timer_id + 1}
    /\ result' = Returned("set", timer_id + 1, "spawned", "Ok")
    /\ UNCHANGED <<receiver, pc, calls, enqueued>>
    /\ UNCHANGED <<senders, clientVars, serverVars, configVars, adapterVars, clockVars, verifyVars, batchVars,
                   gatewayVars>>

\* an unset of an id without a handle that reports success
UnsetMissingOk(id) ==
    /\ result' = Returned("unset", id, "ignored", "Ok")
    /\ UNCHANGED <<handles, sessions>>

\* self.handles.remove(&timer_id) yielded None: ok_or(format_err!("timer not exists"))?
UnsetMissing(id) ==
    /\ result' = Returned("unset", id, "timer not exists", "Err")
    /\ UNCHANGED <<handles, sessions>>

\* Timer::unset for SessionTimer, called by the running handler
TimerUnset(id) ==
    /\ pc.at = "handling"
    /\ IF id \in handles
       THEN /\ handles' = handles \ {id}
            /\ sessions' = [sessions EXCEPT ![id] = IF @ = "running" THEN "aborting" ELSE @]
            /\ result' = Returned("unset", id, "aborted", "Ok")
       ELSE UnsetMissing(id)
    /\ UNCHANGED <<receiver, timer_id, pc, calls, enqueued>>
    /\ UNCHANGED <<senders, clientVars, serverVars, configVars, adapterVars, clockVars, verifyVars, batchVars,
                   gatewayVars>>

\* a run that goes on with the next event whatever the handler returned
AfterHandlerContinue(value) == "select"

\* state.on_timer(..)? / state.on_event(..)?: an error leaves the loop and run
AfterHandler(value) == IF value = "Ok" THEN "select" ELSE "returned"

\* the handler returns: run goes back to select on Ok and returns the error on Err
HandlerReturn(value) ==
    /\ pc.at = "handling"
    /\ pc' = [at |-> AfterHandler(value), event |-> NoEvent]
    /\ result' = Returned(IF pc.event.kind = "Timer" THEN "on_timer" ELSE "on_event",
                           pc.event.seq, "returned", value)
    /\ UNCHANGED <<receiver, handles, timer_id, sessions, calls, enqueued>>
    /\ UNCHANGED <<senders, clientVars, serverVars, configVars, adapterVars, clockVars, verifyVars, batchVars,
                   gatewayVars>>

\* Session::sender() while run does not borrow the Session, or Sender::clone
SenderNew ==
    /\ pc.at \in {"new", "returned"} \/ senders >= 1
    /\ senders' = senders + 1
    /\ UNCHANGED <<receiver, handles, timer_id, sessions, pc, calls, enqueued, result>>
    /\ UNCHANGED <<clientVars, serverVars, configVars, adapterVars, clockVars, verifyVars, batchVars, gatewayVars>>

\* a Sender handle is dropped
SenderDrop ==
    /\ senders >= 1
    /\ senders' = senders - 1
    /\ UNCHANGED <<receiver, handles, timer_id, sessions, pc, calls, enqueued, result>>
    /\ UNCHANGED <<clientVars, serverVars, configVars, adapterVars, clockVars, verifyVars, batchVars, gatewayVars>>

\* Session::run is called
RunStart ==
    /\ pc.at = "new"
    /\ pc' = [at |-> "select", event |-> NoEvent]
    /\ UNCHANGED <<receiver, handles, timer_id, sessions, calls, enqueued, result>>
    /\ UNCHANGED <<senders, clientVars, serverVars, configVars, adapterVars, clockVars, verifyVars, batchVars,
                   gatewayVars>>

\* the Session is dropped, before run, after it returned or with its future cancelled at
\* select: the receiver and its events are gone, and the JoinSet aborts the timer tasks
SessionDrop ==
    /\ pc.at \in {"new", "select", "returned"}
    /\ pc' = [at |-> "dropped", event |-> NoEvent]
    /\ receiver' = <<>>
    /\ handles' = {}
    /\ sessions' = <<>>
    /\ result' = Returned("drop", 0, "dropped", "Ok")
    /\ UNCHANGED <<timer_id, calls, enqueued>>
    /\ UNCHANGED <<senders, clientVars, serverVars, configVars, adapterVars, clockVars, verifyVars, batchVars,
                   gatewayVars>>

InitSessionNode ==
    /\ num_faulty = 0
    /\ num_servers = MaxServers
    /\ flavor = "Plain"
    /\ InitClient
    /\ InitVerify
    /\ InitBatch
    /\ InitGateway
    /\ InitSession
    /\ InitAdapter
    /\ InitClock

\* a holder of a Sender sends an ordinary event
Send ==
    /\ senders >= 1
    /\ enqueued < MaxEvents
    /\ \E event \in Payloads : SenderSend(event)

\* a Sender handle is obtained or cloned
NewSender ==
    /\ senders < MaxSenders
    /\ SenderNew

\* the interval of a timer ticks
Tick ==
    /\ enqueued < MaxEvents
    /\ \E id \in DOMAIN sessions : TimerTaskSend(id)

Cancel == \E id \in DOMAIN sessions : TimerTaskCancelled(id)

JoinNext == \E id \in DOMAIN sessions : RunJoinNext(id)

\* the handler sets a timer
Set ==
    /\ timer_id < MaxTimers
    /\ TimerSet

\* the handler unsets a timer, whether set before or not
Unset == \E id \in 1..MaxTimers : TimerUnset(id)

Return == \E value \in {"Ok", "Err"} : HandlerReturn(value)

NextSession ==
    \/ NewSender
    \/ SenderDrop
    \/ RunStart
    \/ SessionDrop
    \/ Send
    \/ Tick
    \/ Cancel
    \/ JoinNext
    \/ RunRecv
    \/ Set
    \/ Unset
    \/ Return

SpecSession == InitSessionNode /\ [][NextSession]_vars

----------------------------------------------------------------------------
(* boson.rs: the Lamport adapter between the mutex protocol and a causality engine *)

\* clocks the mutex protocol and the engine exchange through the adapter
LamportClocks == GatewayClocks

\* events the adapter is handed: app::mutex Update { prev, remote } and the engine's
\* upcall (id, clock)
LamportUpdates == [type : {"Update"}, prev : LamportClocks, remote : LamportClocks]

LamportUpcalls == [type : {"Upcall"}, id : KeyIds, clock : LamportClocks]

\* anyhow::ensure!(id == self.1) without the comparison
LamportEnsureSkipped(id) == TRUE

\* anyhow::ensure!(id == self.1)
LamportEnsure(id) == id = lamport_id

\* SendEvent<Update<C>> for Lamport<E>
LamportUpdate(update) ==
    /\ lamport_in' = [n |-> lamport_in.n + 1, event |-> update]
    /\ lamport_out' = Append(lamport_out, [type |-> "SubmitAnnounce", prev |-> update.prev,
                                           merged |-> <<update.remote>>, id |-> lamport_id])
    /\ result' = Returned("Update", lamport_id, "sent", "Ok")
    /\ UNCHANGED <<lamport_id, clientVars, serverVars, configVars, clockVars, verifyVars,
                   batchVars, gatewayVars, sessionVars>>

\* SendEvent<(u64, C)> for Lamport<E>
LamportUpcall(id, clock) ==
    /\ lamport_in' = [n |-> lamport_in.n + 1,
                      event |-> [type |-> "Upcall", id |-> id, clock |-> clock]]
    /\ IF LamportEnsure(id)
       THEN /\ lamport_out' = Append(lamport_out, [type |-> "UpdateOk", clock |-> clock])
            /\ result' = Returned("Upcall", id, "sent", "Ok")
       ELSE /\ lamport_out' = lamport_out
            /\ result' = Returned("Upcall", id, "ensure", "Err")
    /\ UNCHANGED <<lamport_id, clientVars, serverVars, configVars, clockVars, verifyVars,
                   batchVars, gatewayVars, sessionVars>>

\* Lamport(sender, id): an adapter of any identity, nothing handed to it yet
InitLamport ==
    /\ num_faulty = 0
    /\ num_servers = MaxServers
    /\ flavor = "Plain"
    /\ InitClient
    /\ InitVerify
    /\ InitBatch
    /\ InitGateway
    /\ InitSession
    /\ lamport_id \in KeyIds
    /\ lamport_in = [n |-> 0, event |-> NoEvent]
    /\ lamport_out = <<>>
    /\ InitClock

\* the mutex protocol requests an update
MutexUpdate ==
    /\ lamport_in.n < MaxAdapter
    /\ \E update \in LamportUpdates : LamportUpdate(update)

\* the engine upcalls a clock for some id
EngineUpcall ==
    /\ lamport_in.n < MaxAdapter
    /\ \E upcall_ \in LamportUpcalls : LamportUpcall(upcall_.id, upcall_.clock)

NextLamport ==
    \/ MutexUpdate
    \/ EngineUpcall

SpecLamport == InitLamport /\ [][NextLamport]_vars

----------------------------------------------------------------------------
(* lib.rs: the recursive clock, S counters attested by a recursive proof.        *)
(* Field elements are written as integers, F::NEG_ONE as -1; the u32 range of a  *)
(* counter is scaled down to 0..U32Max. A proof records the circuit that proved  *)
(* it and the public inputs it attests next to the public inputs it carries.     *)

S == 2              \* coordinates of a clock
U32Max == 2         \* u32::MAX
MaxClocks == 2      \* clocks the application holds at once
MaxTampers == 1     \* clocks whose public inputs were overwritten

GenesisIterations == 4

IndexSecretBase == 117418

\* const DUMMY_SECRET: F = F::NEG_ONE
DUMMY_SECRET == -1

index_secret(index) == IndexSecretBase + index

\* the Poseidon hash of one field element
public_key(secret) == <<"Poseidon", secret>>

\* self.proof.public_inputs.iter().take(S)
Counters(clock) ==
    SubSeq(clock.proof.public_inputs, 1, IF Len(clock.proof.public_inputs) < S
                                         THEN Len(clock.proof.public_inputs) ELSE S)

\* ClockCircuit::new_genesis: the outputs are the constants zero
NewGenesis == [depth |-> 0, keys |-> <<>>, dummy_key |-> public_key(DUMMY_SECRET)]

\* ClockCircuit::new
NewCircuit(inner, ks, dummy_key) ==
    [depth |-> inner.depth + 1, keys |-> ks, dummy_key |-> dummy_key]

\* a proof verifies whatever public inputs it carries
ProofVerifiesAny(proof, verifier_data) == proof.circuit = verifier_data

\* builder.verify_proof, CircuitData::verify: the proof was made by the circuit the
\* verifier data belongs to, for the public inputs it carries
ProofVerifies(proof, verifier_data) ==
    /\ proof.circuit = verifier_data
    /\ proof.public_inputs = proof.attested

\* x1 without the designated coordinate
X1Undesignated(pw, i) == pw.proof1.public_inputs[i + 1]

\* x1: the designated coordinate takes updated_counter, the others proof1's counter
X1(pw, i) ==
    IF pw.updated_index = i THEN pw.updated_counter ELSE pw.proof1.public_inputs[i + 1]

X2(pw, i) == pw.proof2.public_inputs[i + 1]

\* updated_key: keys[updated_index], or dummy_key when no coordinate is designated
UpdatedKey(c, pw) ==
    IF pw.updated_index \in 0..(S - 1) THEN c.keys[pw.updated_index + 1] ELSE c.dummy_key

\* the secret is not checked against the key
SigConnectedAny(c, pw) == TRUE

\* hash_n_to_hash_no_pad(sig) connected with updated_key
SigConnected(c, pw) == public_key(pw.sig) = UpdatedKey(c, pw)

\* output_counters without the second input
OutputCountersFirst(pw) == [i \in 1..S |-> X1(pw, i - 1)]

\* output_counters: max(x1, x2) per coordinate
OutputCounters(pw) == [i \in 1..S |-> Max(X1(pw, i - 1), X2(pw, i - 1))]

\* the constraints of the inductive circuit on a witness
Satisfied(c, pw) ==
    /\ ProofVerifies(pw.proof1, pw.verifier_data1)
    /\ ProofVerifies(pw.proof2, pw.verifier_data2)
    /\ \A i \in 0..(S - 1) : X1(pw, i) \in 0..U32Max /\ X2(pw, i) \in 0..U32Max
    /\ SigConnected(c, pw)

\* prove: the proof of a satisfied circuit attests the outputs
Prove(c, outputs) == [circuit |-> c, attested |-> outputs, public_inputs |-> outputs]

Failed(value, at, proved) ==
    [value |-> value, at |-> at, proved |-> proved, clock |-> NoClock]

\* merge_internal with coordinate 0 designated
MergeInternalFirst(clock1, clock2, c, inner) ==
    IF Satisfied(c, [proof1 |-> clock1.proof, verifier_data1 |-> inner,
                     proof2 |-> clock2.proof, verifier_data2 |-> inner,
                     updated_index |-> 0, updated_counter |-> U32Max,
                     sig |-> DUMMY_SECRET])
    THEN [value |-> "Ok", at |-> "returned", proved |-> TRUE, clock |-> clock1]
    ELSE Failed("Err", "prove", TRUE)

\* Clock::merge_internal
MergeInternal(clock1, clock2, c, inner) ==
    LET pw == [proof1 |-> clock1.proof, verifier_data1 |-> inner,
               proof2 |-> clock2.proof, verifier_data2 |-> inner,
               updated_index |-> S + 1, updated_counter |-> U32Max,
               sig |-> DUMMY_SECRET]
        clock == [proof |-> Prove(c, OutputCounters(pw))]
    IN  IF ~Satisfied(c, pw)
        THEN Failed("Err", "prove", TRUE)
        ELSE IF \E i \in 1..S :
                    Counters(clock)[i] # Max(Counters(clock1)[i], Counters(clock2)[i])
        THEN Failed("Panic", "assert", TRUE)
        ELSE [value |-> "Ok", at |-> "returned", proved |-> TRUE, clock |-> clock]

OutOfBound(clock, index) == index >= Len(Counters(clock))

\* Clock::update, the assertion on the counters of the clock proved
UpdateAssert(self, other, index, counter, clock) ==
    IF \E i \in 1..S :
           Counters(clock)[i] #
               (IF i - 1 = index THEN counter ELSE Max(Counters(self)[i], Counters(other)[i]))
    THEN Failed("Panic", "assert", TRUE)
    ELSE [value |-> "Ok", at |-> "returned", proved |-> TRUE, clock |-> clock]

\* Clock::update, the witness handed to prove
UpdateProve(self, other, index, counter, c, pw) ==
    IF ~Satisfied(c, pw)
    THEN Failed("Err", "prove", TRUE)
    ELSE UpdateAssert(self, other, index, counter, [proof |-> Prove(c, OutputCounters(pw))])

\* Clock::update, max + 1 in u32: it panics or wraps on u32::MAX, as the build checks
\* overflow or not
UpdateCounter(self, other, index, secret, c, overflow, max) ==
    IF max = U32Max /\ overflow = "panic"
    THEN Failed("Panic", "overflow", FALSE)
    ELSE UpdateProve(self, other, index, (max + 1) % (U32Max + 1), c,
                     [proof1 |-> self.proof, verifier_data1 |-> c,
                      proof2 |-> other.proof, verifier_data2 |-> c,
                      updated_index |-> index,
                      updated_counter |-> (max + 1) % (U32Max + 1),
                      sig |-> secret])

\* update without the bound on the index: an index out of bound designates no coordinate
UpdateUnbounded(self, other, index, secret, c, overflow) ==
    UpdateProve(self, other, index, 0, c,
                [proof1 |-> self.proof, verifier_data1 |-> c,
                 proof2 |-> other.proof, verifier_data2 |-> c,
                 updated_index |-> index, updated_counter |-> 0, sig |-> secret])

\* Clock::update
Update(self, other, index, secret, c, overflow) ==
    IF OutOfBound(self, index) \/ OutOfBound(other, index)
    THEN Failed("Err", "out of bound index", FALSE)
    ELSE UpdateCounter(self, other, index, secret, c, overflow,
                       Max(Counters(self)[index + 1], Counters(other)[index + 1]))

\* Clock::verify
ClockVerify(clock, c) == IF ProofVerifies(clock.proof, c) THEN "Ok" ELSE "Err"

\* Clock::genesis: the genesis circuit is built and proved
GenesisProve(ks) ==
    /\ iterations.at = "none"
    /\ keys' = ks
    /\ circuit' = NewGenesis
    /\ gclock' = [proof |-> Prove(NewGenesis, [i \in 1..S |-> 0])]
    /\ iterations' = [at |-> "loop", n |-> 0]
    /\ UNCHANGED <<held, cresult, result, clientVars, serverVars, configVars, adapterVars,
                   verifyVars, batchVars, gatewayVars, sessionVars>>

\* Clock::genesis: one iteration of the loop, the clock merged with itself under the
\* circuit built over the previous one
GenesisIterate ==
    /\ iterations.at = "loop"
    /\ iterations.n < GenesisIterations
    /\ LET c == NewCircuit(circuit, keys, public_key(DUMMY_SECRET))
           merged == MergeInternal(gclock, gclock, c, circuit)
       IN  IF merged.value = "Ok"
           THEN /\ circuit' = c
                /\ gclock' = merged.clock
                /\ iterations' = [at |-> "loop", n |-> iterations.n + 1]
                /\ cresult' = cresult
           ELSE /\ UNCHANGED <<circuit, gclock>>
                /\ iterations' = [at |-> "failed", n |-> iterations.n]
                /\ cresult' = [op |-> "genesis", value |-> merged.value, clock |-> NoClock]
    /\ UNCHANGED <<keys, held, result, clientVars, serverVars, configVars, adapterVars,
                   verifyVars, batchVars, gatewayVars, sessionVars>>

\* Clock::genesis: the assertion after the loop and the return
GenesisReturn ==
    /\ iterations.at = "loop"
    /\ iterations.n = GenesisIterations
    /\ IF \A i \in 1..S : Counters(gclock)[i] = 0
       THEN /\ held' = {gclock}
            /\ iterations' = [at |-> "done", n |-> iterations.n]
            /\ cresult' = [op |-> "genesis", value |-> "Ok", clock |-> gclock]
       ELSE /\ held' = held
            /\ iterations' = [at |-> "failed", n |-> iterations.n]
            /\ cresult' = [op |-> "genesis", value |-> "Panic", clock |-> NoClock]
    /\ UNCHANGED <<keys, circuit, gclock, result, clientVars, serverVars, configVars,
                   adapterVars, verifyVars, batchVars, gatewayVars, sessionVars>>

\* the application updates a clock it holds; the clock returned replaces it or is kept
\* next to it
ClockUpdate(self, other, index, secret, overflow, keep) ==
    \E updated \in {Update(self, other, index, secret, circuit, overflow)} :
        /\ cresult' = [op |-> "update", self |-> self, other |-> other, index |-> index,
                       secret |-> secret, value |-> updated.value, at |-> updated.at,
                       proved |-> updated.proved, clock |-> updated.clock]
        /\ held' = IF updated.value # "Ok" THEN held
                   ELSE IF keep THEN held \cup {updated.clock}
                   ELSE (held \ {self}) \cup {updated.clock}
        /\ UNCHANGED <<keys, circuit, gclock, iterations, result, clientVars, serverVars,
                       configVars, adapterVars, verifyVars, batchVars, gatewayVars,
                       sessionVars>>

\* two clocks the application holds are merged under the circuit genesis returned; the
\* clock returned replaces the first or is kept next to it
ClockMerge(self, other, keep) ==
    \E merged \in {MergeInternal(self, other, circuit, circuit)} :
        /\ cresult' = [op |-> "merge", self |-> self, other |-> other,
                       value |-> merged.value, at |-> merged.at,
                       proved |-> merged.proved, clock |-> merged.clock]
        /\ held' = IF merged.value # "Ok" THEN held
                   ELSE IF keep THEN held \cup {merged.clock}
                   ELSE (held \ {self}) \cup {merged.clock}
        /\ UNCHANGED <<keys, circuit, gclock, iterations, result, clientVars, serverVars,
                       configVars, adapterVars, verifyVars, batchVars, gatewayVars,
                       sessionVars>>

\* the public inputs of a clock are overwritten with those of another, the proof is kept
ClockTamper(self, other) ==
    LET tampered ==
            [proof |-> [self.proof EXCEPT !.public_inputs = other.proof.public_inputs]]
    IN  /\ held' = (held \ {self}) \cup {tampered}
        /\ cresult' = [op |-> "tamper", self |-> self, other |-> other, clock |-> tampered]
        /\ UNCHANGED <<keys, circuit, gclock, iterations, result, clientVars, serverVars,
                       configVars, adapterVars, verifyVars, batchVars, gatewayVars,
                       sessionVars>>

\* the application verifies a clock it holds
ClockVerified(self) ==
    /\ cresult' = [op |-> "verify", self |-> self, value |-> ClockVerify(self, circuit)]
    /\ UNCHANGED <<keys, circuit, gclock, iterations, held, result, clientVars, serverVars,
                   configVars, adapterVars, verifyVars, batchVars, gatewayVars,
                   sessionVars>>

\* secrets a caller may try: those of the test coordinates and the dummy one
Secrets == {index_secret(i) : i \in 0..(S - 1)} \cup {DUMMY_SECRET}

\* key sets a circuit may be built with: one key per coordinate as in the tests, or
\* one key shared by all the coordinates
KeySets == {[i \in 1..S |-> public_key(index_secret(i - 1))],
            [i \in 1..S |-> public_key(index_secret(0))]}

IsTampered(clock) == clock.proof.public_inputs # clock.proof.attested

InitClockNode ==
    /\ num_faulty = 0
    /\ num_servers = MaxServers
    /\ flavor = "Plain"
    /\ InitClient
    /\ InitVerify
    /\ InitBatch
    /\ InitGateway
    /\ InitSession
    /\ InitAdapter
    /\ InitClock

Genesis == \E ks \in KeySets : GenesisProve(ks)

\* whether max + 1 can overflow on these inputs
AtU32Max(self, other, index) ==
    /\ ~OutOfBound(self, index)
    /\ ~OutOfBound(other, index)
    /\ Max(Counters(self)[index + 1], Counters(other)[index + 1]) = U32Max

UpdateClock ==
    \E self \in held, other \in held, index \in 0..S, secret \in Secrets :
        \E overflow \in IF AtU32Max(self, other, index) THEN {"panic", "wrap"} ELSE {"wrap"} :
            \E keep \in IF Cardinality(held) < MaxClocks THEN BOOLEAN ELSE {FALSE} :
                ClockUpdate(self, other, index, secret, overflow, keep)

TamperClock ==
    \E self \in held, other \in held :
        /\ Cardinality({c \in held : IsTampered(c)}) < MaxTampers
        /\ ~IsTampered(self)
        /\ other.proof.public_inputs # self.proof.public_inputs
        /\ ClockTamper(self, other)

VerifyHeld == \E self \in held : ClockVerified(self)

MergeClocks ==
    \E self \in held, other \in held :
        \E keep \in IF Cardinality(held) < MaxClocks THEN BOOLEAN ELSE {FALSE} :
            ClockMerge(self, other, keep)

\* witnesses a prover may hand to the inductive circuit: two proofs it holds, a
\* designated coordinate or none, any counter of the u32 range, a secret it knows
Witnesses ==
    [proof1 : {c.proof : c \in held}, verifier_data1 : {circuit},
     proof2 : {c.proof : c \in held}, verifier_data2 : {circuit},
     updated_index : 0..S, updated_counter : 0..U32Max, sig : Secrets]

\* prove on the inductive circuit with a witness of the prover's choice; the clock made
\* of the proof replaces the first input or is kept next to it
CircuitProve(pw, keep) ==
    \E clock \in {[proof |-> Prove(circuit, OutputCounters(pw))]} :
        /\ cresult' = [op |-> "prove", pw |-> pw,
                       value |-> IF Satisfied(circuit, pw) THEN "Ok" ELSE "Err",
                       clock |-> IF Satisfied(circuit, pw) THEN clock ELSE NoClock]
        /\ held' = IF ~Satisfied(circuit, pw) THEN held
                   ELSE IF keep THEN held \cup {clock}
                   ELSE (held \ {[proof |-> pw.proof1]}) \cup {clock}
        /\ UNCHANGED <<keys, circuit, gclock, iterations, result, clientVars, serverVars,
                       configVars, adapterVars, verifyVars, batchVars, gatewayVars,
                       sessionVars>>

ProveWitness ==
    /\ iterations.at = "done"
    /\ \E pw \in Witnesses :
           \E keep \in IF Cardinality(held) < MaxClocks THEN BOOLEAN ELSE {FALSE} :
               CircuitProve(pw, keep)

NextCircuit ==
    \/ Genesis
    \/ GenesisIterate
    \/ GenesisReturn
    \/ ProveWitness

SpecCircuit == InitClockNode /\ [][NextCircuit]_vars

NextClock ==
    \/ Genesis
    \/ GenesisIterate
    \/ GenesisReturn
    \/ UpdateClock
    \/ MergeClocks
    \/ TamperClock
    \/ VerifyHeld

SpecClock == InitClockNode /\ [][NextClock]_vars

----------------------------------------------------------------------------
(* The quorum protocol over a network that also duplicates replies *)

\* the network hands the client a copy of a reply and keeps the reply in flight
DuplicateAnnounceOk ==
    \E m \in BagToSet(inbox) :
        /\ RecvAnnounceOk(m.message)
        /\ inbox' = inbox

NextDup ==
    \/ Submit
    \/ DeliverAnnounce
    \/ RunWorker
    \/ DeliverAnnounceOk
    \/ DuplicateAnnounceOk
    \/ DeliverForged

SpecDup == Init /\ [][NextDup]_vars

----------------------------------------------------------------------------
(* Servers facing clients that announce any clock, certified or not *)

\* clocks a client can put in an Announce: nothing on the client's side checks prev or
\* merged, so they range over certified, uncertified and badly certified clocks
AnnouncedClocks == GatewayClocks

\* announces broadcast in a run of SpecServer
MaxAnnounces == 1

\* a client announces clocks of its choice
SubmitAny ==
    \E prev \in AnnouncedClocks, id \in KeyIds :
        \E merged \in SeqsUpTo(AnnouncedClocks, 1) :
            /\ Len(net) < MaxAnnounces
            /\ PlainUpdate(prev.plain, [k \in 1..Len(merged) |-> merged[k].plain], id) \in Plains
            /\ SubmitAnnounce(prev, merged, id)

NextServer ==
    \/ SubmitAny
    \/ DeliverAnnounce
    \/ RunWorker
    \/ DeliverAnnounceOk

SpecServer == Init /\ [][NextServer]_vars

----------------------------------------------------------------------------
(* Scenario S1: f = 1, four honest servers with the Plain flavor, one announce *)

InitS1 ==
    /\ num_faulty = 1
    /\ num_servers = 4
    /\ flavor = "Plain"
    /\ InitClient
    /\ InitVerify
    /\ InitBatch
    /\ InitGateway
    /\ InitSession
    /\ InitAdapter
    /\ InitClock

\* the client submits SubmitAnnounce(prev = genesis, merged = [], id = 7), once
S1Submit ==
    /\ net = <<>>
    /\ SubmitAnnounce(DefaultClock, <<>>, 7)

\* the upcalled clock is verified
S1Verify ==
    /\ Len(upcall) >= 1
    /\ ApplyVerify(upcall[1][2])

NextS1 ==
    \/ S1Submit
    \/ DeliverAnnounce
    \/ RunWorker
    \/ DeliverAnnounceOk
    \/ S1Verify

SpecS1 == InitS1 /\ [][NextS1]_vars

\* the number of servers whose reply the client has handled
S1Received ==
    Cardinality({s \in Servers :
        /\ net # <<>>
        /\ <<s, 1>> \notin pending
        /\ \A task \in BagToSet(crypto_worker) : task.server # s
        /\ \A m \in BagToSet(inbox) : m.message.inner.signer_id # s})

----------------------------------------------------------------------------
(* Claims about the quorum client, checked under Spec *)

\* the announce SubmitAnnounce(prev, merged, id) puts on the wire
AnnounceOf(prev, merged, id) ==
    [dest |-> "All",
     message |-> [prev |-> prev, merged |-> merged, id |-> id, addr |-> Addr]]

\* the step emits exactly one upcall, for id
UpcallEmitted(id) ==
    /\ Len(upcall') = Len(upcall) + 1
    /\ SubSeq(upcall', 1, Len(upcall)) = upcall
    /\ upcall'[Len(upcall')][1] = id

\* the announces broadcast so far that carry id, as indexes into net
AnnouncesFor(id) == {k \in DOMAIN net : net[k].message.id = id}

\* the upcalls emitted so far for id, as indexes into upcall
UpcallsFor(id) == {k \in DOMAIN upcall : upcall[k][1] = id}

\* the announce an upcall for id answers: the last one broadcast with that id
LastAnnounceFor(id) ==
    net[CHOOSE k \in AnnouncesFor(id) : \A j \in AnnouncesFor(id) : j <= k].message

\* C1: a SubmitAnnounce for an id that is already in working_announces returns an
\* error; one for an id that is not succeeds, inserts {prev_plain: prev.plain, replies: {}}
\* under id, leaves the other entries alone and broadcasts exactly one Announce to All.
C1_SubmitAnnounce ==
    [][\A prev \in InputClocks, merged \in InputMerged, id \in KeyIds :
        SubmitAnnounce(prev, merged, id) =>
            IF id \in DOMAIN working_announces
            THEN result'.value = "Err"
            ELSE /\ result'.value = "Ok"
                 /\ DOMAIN working_announces' = DOMAIN working_announces \cup {id}
                 /\ working_announces'[id] = [prev_plain |-> prev.plain, replies |-> <<>>]
                 /\ \A i \in DOMAIN working_announces :
                        working_announces'[i] = working_announces[i]
                 /\ net' = Append(net, AnnounceOf(prev, merged, id))
                 /\ pending' \ pending = {<<s, Len(net')>> : s \in Servers}]_vars

\* C1 witness: a submit was rejected as concurrent after an earlier one was broadcast
C1_Witness ==
    /\ result.op = "SubmitAnnounce"
    /\ result.value = "Err"
    /\ Len(net) >= 1

\* C2: an accepted reply is stored under its signer_id; when that makes the number of
\* stored replies exceed f the entry is removed and exactly one upcall (id, clock) is
\* emitted, clock.plain being the plain of this reply and clock.cert the stored replies;
\* while the number of stored replies is <= f nothing is upcalled.
C2_QuorumUpcall ==
    [][\A m \in Deliverable :
        (/\ RecvAnnounceOk(m)
         /\ m.inner.id \in DOMAIN working_announces
         /\ PlainDepCmp(m.inner.plain, working_announces[m.inner.id].prev_plain,
                        m.inner.id) > 0)
        => LET id == m.inner.id
               stored == Insert(working_announces[id].replies, m.inner.signer_id, m)
           IN  IF Cardinality(DOMAIN stored) > num_faulty
               THEN /\ id \notin DOMAIN working_announces'
                    /\ UpcallEmitted(id)
                    /\ upcall'[Len(upcall')][2].plain = m.inner.plain
                    /\ Len(upcall'[Len(upcall')][2].cert) = Cardinality(DOMAIN stored)
                    /\ Range(upcall'[Len(upcall')][2].cert) = Range(stored)
               ELSE /\ upcall' = upcall
                    /\ id \in DOMAIN working_announces'
                    /\ working_announces'[id].replies = stored
                    /\ working_announces'[id].replies[m.inner.signer_id] = m]_vars

\* C2 witness: with f = 1 a second reply completed a quorum and the clock was upcalled
C2_Witness ==
    /\ num_faulty = 1
    /\ result.op = "RecvAnnounceOk"
    /\ result.at = "quorum"
    /\ Len(upcall) >= 1
    /\ Len(upcall[Len(upcall)][2].cert) = 2

\* C3: every clock C upcalled for an announce (prev, merged, id) satisfies
\* C.plain.dep_cmp(prev.plain, id) > 0 and |C.cert| > f.
C3_UpcallAdvances ==
    [][\A id \in KeyIds :
        UpcallEmitted(id) =>
            /\ PlainDepCmp(upcall'[Len(upcall')][2].plain,
                           LastAnnounceFor(id).prev.plain, id) > 0
            /\ Len(upcall'[Len(upcall')][2].cert) > num_faulty]_vars

\* C4: in every upcalled clock all cert entries carry the same id and the same plain,
\* and that plain is the clock's plain.
C4_CertUniform ==
    \A k \in DOMAIN upcall :
        \A j \in DOMAIN upcall[k][2].cert :
            /\ upcall[k][2].cert[j].inner.id = upcall[k][1]
            /\ upcall[k][2].cert[j].inner.plain = upcall[k][2].plain

\* C8: a reply for an in-flight id whose plain does not strictly advance the recorded
\* prev_plain is dropped: working_announces (the replies of that id included) and the
\* upcalls are unchanged.
C8_StaleDropped ==
    [][\A m \in Deliverable :
        (/\ RecvAnnounceOk(m)
         /\ m.inner.id \in DOMAIN working_announces
         /\ PlainDepCmp(m.inner.plain, working_announces[m.inner.id].prev_plain,
                        m.inner.id) <= 0)
        => /\ working_announces' = working_announces
           /\ upcall' = upcall
           /\ net' = net]_vars

\* C8 witness: a reply was dropped as stale while its id was in flight with a
\* prev_plain that is not the default
C8_Witness ==
    /\ result.op = "RecvAnnounceOk"
    /\ result.at = "stale"
    /\ result.id \in DOMAIN working_announces
    /\ working_announces[result.id].prev_plain # DefaultVersion

\* C9: a reply whose id is not in working_announces is dropped: the handler returns
\* Ok, working_announces is unchanged and nothing is upcalled.
C9_LateDropped ==
    [][\A m \in Deliverable :
        (RecvAnnounceOk(m) /\ m.inner.id \notin DOMAIN working_announces)
        => /\ result'.value = "Ok"
           /\ working_announces' = working_announces
           /\ upcall' = upcall
           /\ net' = net]_vars

\* C9 witness: a reply arrived for an id whose announce had already completed
C9_Witness ==
    /\ result.op = "RecvAnnounceOk"
    /\ result.at = "late"
    /\ \E k \in DOMAIN upcall : upcall[k][1] = result.id
    /\ result.id \notin DOMAIN working_announces

\* C10: an entry for id is in working_announces exactly if a SubmitAnnounce for id was
\* received and no upcall for id was emitted since; an entry disappears only in a step
\* that upcalls its id.
C10_WorkingLifecycle ==
    [][\A id \in KeyIds :
        (id \in DOMAIN working_announces') <=>
            \/ result'.op = "SubmitAnnounce" /\ result'.id = id
            \/ id \in DOMAIN working_announces /\ ~UpcallEmitted(id)]_vars

\* C10 witness: an entry was created by a submit and later removed on quorum
C10_Witness ==
    /\ result.op = "RecvAnnounceOk"
    /\ result.at = "quorum"
    /\ result.id \notin DOMAIN working_announces
    /\ \E k \in DOMAIN net : net[k].message.id = result.id
\* the signing task C15 expects of server s for an announce
ExpectedTask(s, announce) ==
    [server |-> s, addr |-> announce.addr,
     announce_ok |->
         [plain |-> PlainUpdate(announce.prev.plain,
                                [k \in 1..Len(announce.merged) |-> announce.merged[k].plain],
                                announce.id),
          id |-> announce.id, signer_id |-> s]]

\* C15: for every announce a server receives it submits exactly one signing task, a function
\* of the announce and of the server's id alone: the task sends to the announce's reply
\* address, and nowhere else, an AnnounceOk signed by this server with
\* plain = prev.plain.update(plains of merged, id), the announce's id and the server's id;
\* the handler touches nothing else, so the same announce received again yields an
\* identical task and an identical reply
C15_ServerSigns ==
    [][/\ \A d \in pending :
            (result'.op = "RecvAnnounce" /\ pending' = pending \ {d})
                => /\ crypto_worker' =
                        crypto_worker (+) SetToBag({ExpectedTask(d[1], net[d[2]].message)})
                   /\ UNCHANGED <<clientVars, inbox>>
       /\ \A task \in BagToSet(crypto_worker) :
            (result'.op = "WorkerSign" /\ crypto_worker' = crypto_worker (-) SetToBag({task}))
                => \E m \in BagToSet(inbox') :
                      /\ inbox' = inbox (+) SetToBag({m})
                      /\ m.dest = task.addr
                      /\ m.message.inner = task.announce_ok
                      /\ CryptoVerify(VerifierCrypto, task.server, m.message) = "Ok"
                      /\ UNCHANGED <<clientVars, pending>>]_vars

C15_Witness ==
    /\ result.op = "WorkerSign"
    /\ \E k \in DOMAIN net : \E m \in BagToSet(inbox) : \E s \in Servers :
          LET announce == net[k].message
          IN  /\ announce.merged # <<>>
              /\ m.dest = Addr
              /\ m.message.inner = ExpectedTask(s, announce).announce_ok
              /\ m.message.inner.plain # PlainUpdate(announce.prev.plain, <<>>, announce.id)

\* C35: a SubmitAnnounce that fails with the concurrent-request error leaves the client
\* unchanged: the in-flight entry of the id keeps the prev_plain of the first submit and
\* the replies collected so far, and nothing is broadcast
C35_RejectedSubmitKeepsState ==
    [][(result'.op = "SubmitAnnounce" /\ result'.value = "Err")
           => UNCHANGED <<working_announces, net, pending>>]_vars

\* id completed earlier and was submitted again, and the server that signed the reply has
\* not received the later announce yet: the reply was produced for an earlier announce
OldReply(m) ==
    LET id == m.message.inner.id
    IN  /\ UpcallsFor(id) # {}
        /\ Cardinality(AnnouncesFor(id)) >= 2
        /\ id \in DOMAIN working_announces
        /\ \E k \in AnnouncesFor(id) :
              /\ \A j \in AnnouncesFor(id) : j <= k
              /\ <<m.message.inner.signer_id, k>> \in pending

\* the step hands reply m to the client
Delivered(m) == RecvAnnounceOk(m.message) /\ inbox' = inbox (-) SetToBag({m})

\* C38 as stated: a reply produced for an earlier announce of a reused id is never
\* counted toward the later announce, whatever the later prev: the client neither
\* stores it nor upcalls with it
C38_OldReplyIgnored ==
    [][\A m \in BagToSet(inbox) :
          (OldReply(m) /\ Delivered(m))
              => /\ working_announces' = working_announces
                 /\ upcall' = upcall]_vars

\* C38 amended: a reply produced for an earlier announce of a reused id is dropped
\* exactly if its plain does not strictly advance, at id, the prev_plain recorded for
\* the id (as when the later prev is the earlier result); if it does advance it, the
\* reply is stored for the later announce or completes its quorum
C38_OldReplyStale ==
    [][\A m \in BagToSet(inbox) :
          (OldReply(m) /\ Delivered(m))
              => LET id == m.message.inner.id
                     cmp == PlainDepCmp(m.message.inner.plain,
                                        working_announces[id].prev_plain, id)
                 IN  /\ cmp <= 0 => /\ result'.at = "stale"
                                    /\ working_announces' = working_announces
                                    /\ upcall' = upcall
                     /\ cmp > 0 => result'.at \in {"stored", "quorum"}]_vars

\* without a Byzantine server, the id was submitted again with the earlier result as prev
\* and, before any server received the later announce, a reply to the earlier one was
\* dropped as stale
C38_Witness ==
    /\ num_faulty = 0
    /\ result = Returned("RecvAnnounceOk", result.id, "stale", "Ok")
    /\ result.id \in DOMAIN working_announces
    /\ UpcallsFor(result.id) # {}
    /\ Cardinality(AnnouncesFor(result.id)) = 2
    /\ \E k \in DOMAIN upcall : upcall[k] = <<result.id, LastAnnounceFor(result.id).prev>>
    /\ \A s \in Servers : \E k \in AnnouncesFor(result.id) :
          /\ \A j \in AnnouncesFor(result.id) : j <= k
          /\ <<s, k>> \in pending

\* every server has received the announces broadcast for id, every signing task for id
\* has run and every reply for id has been handed to the client
RepliesDelivered(id) ==
    /\ AnnouncesFor(id) # {}
    /\ \A d \in pending : d[2] \notin AnnouncesFor(id)
    /\ \A task \in BagToSet(crypto_worker) : task.announce_ok.id # id
    /\ \A m \in BagToSet(inbox) : m.message.inner.id # id

\* C39: once the announces submitted for an id have reached the servers (all of which
\* sign) and their replies have been delivered, the client has upcalled for the id: no
\* announce stays in flight with its replies used up, which it would if a server's reply
\* were dropped by the strict-advancement check or lost
C39_QuorumCompletes ==
    \A id \in KeyIds :
        RepliesDelivered(id)
            => /\ id \notin DOMAIN working_announces
               /\ UpcallsFor(id) # {}

----------------------------------------------------------------------------
(* Claims about the quorum client under duplicated replies, checked under SpecDup *)

\* C36: whatever the interleaving of submits and replies, duplicated, reordered and late
\* replies included, the upcalls emitted for an id never outnumber the successful
\* SubmitAnnounce events for that id (each of which broadcast one announce)
C36_UpcallsBounded ==
    \A id \in KeyIds : Cardinality(UpcallsFor(id)) <= Cardinality(AnnouncesFor(id))

\* two announces of one id have both completed, each with its own upcall, and a further
\* reply for that id has just been dropped as late
C36_Witness ==
    \E id \in KeyIds :
        /\ Cardinality(AnnouncesFor(id)) = 2
        /\ Cardinality(UpcallsFor(id)) = 2
        /\ result = Returned("RecvAnnounceOk", id, "late", "Ok")

\* C37: every upcalled clock has a cert of exactly num_faulty + 1 entries with pairwise
\* distinct signer_id, and the replies stored for an in-flight id are keyed by their
\* signer_id, one per signer and at most num_faulty of them: replies repeating a
\* signer_id count once, so with num_faulty >= 1 replies of a single signer never
\* complete a quorum
C37_CertDistinctSigners ==
    /\ \A k \in DOMAIN upcall :
          LET cert == upcall[k][2].cert
          IN  /\ Len(cert) = num_faulty + 1
              /\ \A i, j \in DOMAIN cert :
                    SignerIds(cert)[i] = SignerIds(cert)[j] => i = j
    /\ \A id \in DOMAIN working_announces :
          LET replies == working_announces[id].replies
          IN  /\ Cardinality(DOMAIN replies) <= num_faulty
              /\ \A s \in DOMAIN replies : replies[s].inner.signer_id = s

\* with num_faulty = 1 a second reply of the signer already stored has just been taken:
\* the entry still holds one reply, and no upcall was made for the id
C37_Witness ==
    /\ num_faulty = 1
    /\ result.op = "RecvAnnounceOk" /\ result.at = "stored"
    /\ result.id \in DOMAIN working_announces
    /\ Cardinality(DOMAIN working_announces[result.id].replies) = 1
    /\ UpcallsFor(result.id) = {}
    /\ \E m \in BagToSet(inbox) :
          /\ m.message.inner.id = result.id
          /\ m.message.inner.signer_id \in DOMAIN working_announces[result.id].replies
          /\ working_announces[result.id].replies[m.message.inner.signer_id] = m.message

----------------------------------------------------------------------------
(* Claims about QuorumClock::verify, checked under SpecVerify *)

\* C5: in every clock verify accepts, the cert entries carry pairwise distinct signer_id
\* and all carry the same plain and the same id.
C5_VerifiedCertDistinct ==
    vresult = "Ok" =>
        \A j, k \in DOMAIN vclock.cert :
            /\ j # k => vclock.cert[j].inner.signer_id # vclock.cert[k].inner.signer_id
            /\ vclock.cert[j].inner.plain = vclock.cert[k].inner.plain
            /\ vclock.cert[j].inner.id = vclock.cert[k].inner.id

\* C11: verify on a clock whose plain is the default returns Ok exactly when the cert is
\* empty, whatever the provider flavor and num_faulty; no signature is looked at, so a
\* cert of valid signatures is rejected and an empty cert passes a provider that cannot
\* verify batches
C11_GenesisVerify ==
    (vresult # "None" /\ vclock.plain = DefaultVersion)
        => /\ vresult \in {"Ok", "Err"}
           /\ vresult = "Ok" <=> vclock.cert = <<>>

C11_Witness ==
    /\ vresult = "Err"
    /\ vclock.plain = DefaultVersion
    /\ Len(vclock.cert) > num_faulty
    /\ VerifyBatched(VerifierCrypto, SignerIds(vclock.cert), vclock.cert) = "Ok"

\* C12: verify on a clock whose plain is not the default fails whenever the cert holds at
\* most num_faulty entries, whatever the signatures are
C12_InsufficientCert ==
    (vresult # "None" /\ vclock.plain # DefaultVersion /\ Len(vclock.cert) <= num_faulty)
        => vresult = "Err"

C12_Witness ==
    /\ vresult = "Err"
    /\ vclock.plain # DefaultVersion
    /\ num_faulty >= 1
    /\ Len(vclock.cert) = num_faulty
    /\ VerifyBatched(VerifierCrypto, SignerIds(vclock.cert), vclock.cert) = "Ok"

----------------------------------------------------------------------------
(* Claims about Crypto::verify_batched, checked under SpecBatch *)

\* the pairs verify_batched looks at
BatchPairs ==
    1..(IF Len(batch.indexes) <= Len(batch.signed) THEN Len(batch.indexes) ELSE Len(batch.signed))

\* every pair passes Crypto::verify on its own
EachPairVerifies ==
    \A k \in BatchPairs : CryptoVerify(VerifierCrypto, batch.indexes[k], batch.signed[k]) = "Ok"

\* C13: with the Schnorr provider verify_batched is all-or-nothing: it returns Ok exactly
\* when every pair of index and signed message passes verify on its own; the test batch
\* signed by nodes 0..3 passes against the indexes 0,1,2,3 and fails against any other
\* list of indexes
C13_BatchAllOrNothing ==
    (bresult # "None" /\ flavor = "Schnorrkel")
        => /\ bresult = "Ok" <=> EachPairVerifies
           /\ batch.signed = TestSigned
                => (bresult = "Ok" <=> batch.indexes = TestIndexes)

C13_Witness ==
    /\ flavor = "Schnorrkel"
    /\ bresult = "Err"
    /\ batch.signed = TestSigned
    /\ Cardinality({k \in 1..TestNodes : batch.indexes[k] # TestIndexes[k]}) = 1

\* C14: with the Plain or the secp256k1 provider verify_batched fails whatever the batch,
\* the empty batch and a batch whose every pair passes verify included
C14_BatchUnimplemented ==
    (bresult # "None" /\ flavor # "Schnorrkel") => bresult = "Err"

C14_Witness ==
    /\ flavor = "Plain"
    /\ bresult = "Err"
    /\ batch.signed = TestSigned
    /\ batch.indexes = TestIndexes
    /\ EachPairVerifies

----------------------------------------------------------------------------
(* Claims about the VerifyQuorumClock gateway, checked under SpecGateway *)

Count(seq, m) == Cardinality({k \in DOMAIN seq : seq[k] = m})

\* the outcome of M.verify_clock(num_faulty, crypto) at this node
Verified(m) == VerifyClock(m, num_faulty, VerifierCrypto)

\* C16: a message handed to the gateway reaches the inner handler if and only if its
\* verify_clock succeeded in the worker task, and then exactly once: once its tasks have
\* run, a message that verifies was forwarded as many times as it was handed over, and a
\* message that does not verify was never forwarded
C16_ForwardedIffVerified ==
    /\ \A k \in DOMAIN forwarded : Count(handed, forwarded[k]) >= 1
    /\ \A k \in DOMAIN handed :
          LET m == handed[k]
          IN  IF Verified(m) = "Ok"
              THEN Count(forwarded, m) + CopiesIn(m, verify_worker) = Count(handed, m)
              ELSE Count(forwarded, m) = 0

C16_Witness ==
    /\ verify_worker = EmptyBag
    /\ Len(handed) = 2
    /\ \E i, j \in DOMAIN handed :
          /\ handed[i].kind = "Announce" /\ handed[i].merged # <<>>
          /\ Verified(handed[i]) = "Ok"
          /\ Verified(handed[j]) = "Err"
          /\ forwarded = <<handed[i]>>

C18_AnnounceVerifyClock ==
    [][\A m \in BagToSet(verify_worker) :
          (/\ result'.op = "GatewayTask"
           /\ verify_worker' = verify_worker (-) SetToBag({m})
           /\ m.kind = "Announce")
              => ((forwarded' = Append(forwarded, m))
                    <=> /\ Verify(m.prev, num_faulty, VerifierCrypto) = "Ok"
                        /\ \A k \in DOMAIN m.merged :
                              Verify(m.merged[k], num_faulty, VerifierCrypto) = "Ok")]_vars

C18_Witness ==
    /\ result.op = "GatewayTask" /\ result.at = "dropped"
    /\ verify_worker = EmptyBag
    /\ forwarded = <<>>
    /\ \E k \in DOMAIN handed :
          /\ handed[k].kind = "Announce"
          /\ handed[k].prev = CertifiedClock
          /\ Len(handed[k].merged) = 2
          /\ handed[k].merged[1] = CertifiedClock
          /\ handed[k].merged[2] = UncertifiedClock

\* a cert entry of the clock names a signer that has no key in the table
NamesUnknownSigner(clock) ==
    \E k \in DOMAIN clock.cert :
        clock.cert[k].inner.signer_id \notin DOMAIN VerifierCrypto.public_keys

\* C40: QuorumClock::verify returns an error, and does not abort the verifying task,
\* for a clock with a cert entry whose signer_id is outside the key table: the gateway
\* task of a message carrying such a clock completes with Ok and drops the message
C40_UnknownSignerIsAnError ==
    [][\A m \in BagToSet(verify_worker) :
          (/\ result'.op = "GatewayTask"
           /\ verify_worker' = verify_worker (-) SetToBag({m})
           /\ m.kind \in {"Clocked", "PutOk", "GetOk", "SyncKey"}
           /\ NamesUnknownSigner(m.clock))
              => /\ Verify(m.clock, num_faulty, VerifierCrypto) = "Err"
                 /\ result' = Returned("GatewayTask", 0, "dropped", "Ok")
                 /\ forwarded' = forwarded]_vars

----------------------------------------------------------------------------
(* Claims about Session::run and its timers, checked under SpecSession *)

\* the events of a sequence are in the order in which they were enqueued
InSendOrder(events) ==
    \A i, j \in DOMAIN events : i < j => events[i].seq < events[j].seq

\* C19: run hands the events to the actor in the order in which they were enqueued, timer
\* events and ordinary events sharing the one channel: the calls made so far are in enqueue
\* order and none of them overtook an event still waiting; a handler call starts only from
\* select, on the oldest event of the channel, and until it returns no other call starts
\* and nothing is taken from the channel
C19_FifoNoOverlap ==
    /\ [](/\ InSendOrder(calls)
          /\ InSendOrder(receiver)
          /\ \A c \in DOMAIN calls : \A k \in DOMAIN receiver : calls[c].seq < receiver[k].seq)
    /\ [][/\ calls' # calls
              => /\ pc.at = "select" /\ pc'.at = "handling"
                 /\ receiver # <<>>
                 /\ calls' = Append(calls, Head(receiver))
                 /\ receiver' = Tail(receiver)
          /\ pc.at = "handling"
              => /\ calls' = calls
                 /\ Len(receiver') >= Len(receiver)
                 /\ SubSeq(receiver', 1, Len(receiver)) = receiver]_vars

C19_Witness ==
    /\ Len(calls) = 3
    /\ calls[1].kind = "Other" /\ calls[2].kind = "Timer" /\ calls[3].kind = "Other"
    /\ pc.at = "handling"
    /\ receiver # <<>>

\* C20: once unset(id) has returned Ok (the id was set and is no longer among the live
\* timers), no step of run calls on_timer(id), whatever the timer task does meanwhile:
\* the events of the timer still in the channel, and those its task sends before the abort
\* takes effect, are skipped when they are received
C20_NoTimerAfterUnset ==
    [][\A id \in 1..timer_id :
          id \notin handles
              => ~(/\ calls' # calls
                   /\ calls'[Len(calls')].kind = "Timer"
                   /\ calls'[Len(calls')].arg = id)]_vars

C20_Witness ==
    \E id \in 1..timer_id :
        /\ id \notin handles
        /\ id \in DOMAIN sessions
        /\ sessions[id] = "aborting"
        /\ result = Returned("run", id, "skipped", "Ok")
        /\ \E k \in DOMAIN receiver : receiver[k].kind = "Timer" /\ receiver[k].arg = id
        /\ \E c \in DOMAIN calls : calls[c].kind = "Timer" /\ calls[c].arg = id

\* C21: unset of an id that set never returned, or that was unset already, returns the
\* error "timer not exists" and leaves the live timers and their tasks as they were; unset
\* of a live id returns Ok and removes that id and no other
C21_UnsetMissing ==
    [][(result'.op = "unset" /\ result' # result)
          => IF result'.id \in handles
             THEN /\ result'.value = "Ok"
                  /\ handles' = handles \ {result'.id}
             ELSE /\ result'.value = "Err"
                  /\ result'.at = "timer not exists"
                  /\ UNCHANGED <<handles, sessions>>]_vars

C21_Witness ==
    /\ result.op = "unset" /\ result.value = "Err"
    /\ result.id <= timer_id
    /\ result.id \notin handles
    /\ handles # {}

\* C22: once every Sender handle has been dropped and the channel is drained (and no
\* timer task is left to send), run at its select can go on: recv() yields None and run
\* returns "channel closed" instead of waiting forever
C22_ChannelCloseReturns ==
    (pc.at = "select" /\ senders = 0 /\ receiver = <<>> /\ sessions = <<>> /\ calls # <<>>)
        => ENABLED RunRecv

\* C23: a send on a Sender after the Session was dropped returns an error and enqueues
\* nothing; a send while the Session is alive returns Ok and puts the event, as an
\* ordinary event, behind those already in the channel
C23_SendAfterDrop ==
    [][(result'.op = "send" /\ result' # result)
          => IF pc.at = "dropped"
             THEN /\ result'.value = "Err"
                  /\ UNCHANGED <<receiver, enqueued>>
             ELSE /\ result'.value = "Ok"
                  /\ Len(receiver') = Len(receiver) + 1
                  /\ SubSeq(receiver', 1, Len(receiver)) = receiver
                  /\ receiver'[Len(receiver')].kind = "Other"]_vars

C23_Witness ==
    /\ pc.at = "dropped"
    /\ result.op = "send" /\ result.value = "Err"
    /\ senders >= 1
    /\ calls # <<>>

\* C24: when on_event or on_timer returns an error, run returns it at once: the step of
\* the failing return leaves the loop, and from then on no handler call is made and
\* nothing is taken from the channel, whatever is queued
C24_HandlerErrorEndsRun ==
    [][/\ (pc.at = "handling" /\ pc'.at # "handling" /\ result'.value = "Err")
              => pc'.at = "returned"
       /\ pc.at = "returned"
              => /\ calls' = calls
                 /\ pc'.at \in {"returned", "dropped"}
                 /\ pc'.at = "returned"
                       => /\ Len(receiver') >= Len(receiver)
                          /\ SubSeq(receiver', 1, Len(receiver)) = receiver]_vars

C24_Witness ==
    /\ pc.at = "returned"
    /\ result.op \in {"on_event", "on_timer"} /\ result.value = "Err"
    /\ \E k \in DOMAIN receiver : receiver[k].kind = "Other"
    /\ \E k \in DOMAIN receiver : receiver[k].kind = "Timer" /\ receiver[k].arg \in handles

----------------------------------------------------------------------------
(* Claims about the Lamport adapter, checked under SpecLamport *)

\* C25: the adapter of identity self_id turns every mutex Update { prev, remote } into
\* exactly one SubmitAnnounce(prev, [remote], self_id); it turns an upcall (id, clock)
\* with id = self_id into exactly one UpdateOk(clock); an upcall with any other id
\* returns an error and nothing is forwarded.
C25_LamportTranslates ==
    [][lamport_in'.n = lamport_in.n + 1 =>
          LET event == lamport_in'.event
          IN  IF event.type = "Update"
              THEN /\ lamport_out' = Append(lamport_out,
                          [type |-> "SubmitAnnounce", prev |-> event.prev,
                           merged |-> <<event.remote>>, id |-> lamport_id])
                   /\ result'.value = "Ok"
              ELSE IF event.id = lamport_id
              THEN /\ lamport_out' = Append(lamport_out,
                          [type |-> "UpdateOk", clock |-> event.clock])
                   /\ result'.value = "Ok"
              ELSE /\ lamport_out' = lamport_out
                   /\ result'.value = "Err"]_vars

\* an update was translated, then an upcall for a foreign id was refused
C25_Witness ==
    /\ lamport_in.n = 2
    /\ lamport_in.event.type = "Upcall"
    /\ lamport_in.event.id # lamport_id
    /\ result.value = "Err"
    /\ Len(lamport_out) = 1
    /\ lamport_out[1].type = "SubmitAnnounce"
    /\ lamport_out[1].prev # lamport_out[1].merged[1]

----------------------------------------------------------------------------
(* Claims about the recursive clock, checked under SpecClock *)

\* the calls the claims are about: update on an index below S with the secret whose
\* hash is the key of that index
UpdateKeyed ==
    /\ cresult.op = "update"
    /\ cresult.index < S
    /\ public_key(cresult.secret) = keys[cresult.index + 1]

InputMax(j) == Max(Counters(cresult.self)[j], Counters(cresult.other)[j])

\* C26: a clock returned by update(i, secret, other), with i < S and the secret the
\* preimage of keys[i], has at i the counter max(self[i], other[i]) + 1 and at every
\* other coordinate j the counter max(self[j], other[j]).
C26_UpdateCounters ==
    (UpdateKeyed /\ cresult.value = "Ok")
        => \A j \in 1..S :
               Counters(cresult.clock)[j] =
                   IF j - 1 = cresult.index THEN InputMax(j) + 1 ELSE InputMax(j)

\* the same below the top of the counter range
UpdateCountersBelowMax ==
    (UpdateKeyed /\ cresult.value = "Ok" /\ InputMax(cresult.index + 1) < U32Max)
        => \A j \in 1..S :
               Counters(cresult.clock)[j] =
                   IF j - 1 = cresult.index THEN InputMax(j) + 1 ELSE InputMax(j)

InputsValid ==
    /\ ClockVerify(cresult.self, circuit) = "Ok"
    /\ ClockVerify(cresult.other, circuit) = "Ok"

C28_OutOfBound ==
    (cresult.op = "update" /\ cresult.index >= S)
        => /\ cresult.value = "Err"
           /\ cresult.at = "out of bound index"
           /\ ~cresult.proved
           /\ cresult.clock = NoClock

\* index S was tried with each secret, on the genesis clock and on an updated one
C28_Witness ==
    /\ cresult.op = "update"
    /\ cresult.index = S
    /\ cresult.value = "Err"
    /\ cresult.secret = index_secret(0)
    /\ cresult.self # cresult.other
    /\ ~IsTampered(cresult.self)
    /\ ~IsTampered(cresult.other)

\* C29: whatever the key set, each of the four iterations of Clock::genesis leaves every
\* counter at 0, no iteration fails, and the clock returned has S counters, all 0, and
\* verifies against the circuit returned with it.
C29_GenesisZero ==
    /\ iterations.at # "failed"
    /\ iterations.at \in {"loop", "done"}
           => /\ Len(Counters(gclock)) = S
              /\ \A j \in 1..S : Counters(gclock)[j] = 0
    /\ iterations.at = "done"
           => /\ iterations.n = GenesisIterations
              /\ circuit.depth = GenesisIterations
              /\ ClockVerify(gclock, circuit) = "Ok"

\* genesis returned, for the key set that shares one key among the coordinates
C29_Witness ==
    /\ iterations.at = "done"
    /\ cresult.op = "genesis"
    /\ cresult.value = "Ok"
    /\ cresult.clock = gclock
    /\ held = {gclock}
    /\ keys[1] = keys[2]

\* C30: a clock whose public inputs were overwritten, its proof left as it was, is
\* rejected by verify, and an update that takes it as an input fails and returns no
\* clock.
C30_TamperDetected ==
    /\ (cresult.op = "verify" /\ IsTampered(cresult.self)) => cresult.value = "Err"
    /\ (cresult.op = "update" /\ (IsTampered(cresult.self) \/ IsTampered(cresult.other)))
           => cresult.value # "Ok" /\ cresult.clock = NoClock

\* the test: the clock updated at 0 from genesis carries the genesis public inputs and
\* is updated at 0 with itself, with the secret of coordinate 0
C30_Witness ==
    /\ cresult.op = "update"
    /\ cresult.self = cresult.other
    /\ cresult.self.proof.attested = [j \in 1..S |-> IF j = 1 THEN 1 ELSE 0]
    /\ cresult.self.proof.public_inputs = gclock.proof.public_inputs
    /\ cresult.index = 0
    /\ cresult.secret = index_secret(0)
    /\ keys[1] = public_key(index_secret(0))
    /\ cresult.value = "Err"
    /\ cresult.at = "prove"

\* C31: merging two clocks that verify takes no secret of a coordinate and returns a
\* clock whose counter at every coordinate is the maximum of the two inputs' counters;
\* no coordinate is incremented, and a clock merged with itself keeps its counters.
C31_MergeMax ==
    (cresult.op = "merge" /\ InputsValid)
        => /\ cresult.value = "Ok"
           /\ ClockVerify(cresult.clock, circuit) = "Ok"
           /\ \A j \in 1..S : Counters(cresult.clock)[j] = InputMax(j)
           /\ cresult.self = cresult.other
                  => Counters(cresult.clock) = Counters(cresult.self)

\* two clocks that advanced at different coordinates were merged
C31_Witness ==
    /\ cresult.op = "merge"
    /\ cresult.value = "Ok"
    /\ Counters(cresult.self)[1] > Counters(cresult.other)[1]
    /\ Counters(cresult.self)[2] < Counters(cresult.other)[2]
    /\ Counters(cresult.clock)[1] = Counters(cresult.self)[1]
    /\ Counters(cresult.clock)[2] = Counters(cresult.other)[2]

\* C33: the counter a returned update gives to its coordinate i < S is strictly greater
\* than max(self[i], other[i]), on the whole u32 range, u32::MAX included: max + 1
\* never wraps into a smaller counter.
C33_StrictAdvance ==
    (cresult.op = "update" /\ cresult.index < S /\ cresult.value = "Ok")
        => Counters(cresult.clock)[cresult.index + 1] > InputMax(cresult.index + 1)

----------------------------------------------------------------------------
(* Claims about the inductive circuit, checked under SpecCircuit *)

\* the witnesses the claim is about: accepted, with a coordinate designated
Accepted ==
    /\ cresult.op = "prove"
    /\ cresult.value = "Ok"
    /\ cresult.pw.updated_index < S

----------------------------------------------------------------------------
(* Claims about servers facing any announce, checked under SpecServer *)

\* the clock fails QuorumClock::verify although its plain is not the default one
Uncertified(clock) ==
    /\ clock.plain # DefaultVersion
    /\ Verify(clock, num_faulty, VerifierCrypto) # "Ok"

\* prev or one of the merged clocks of the announce is uncertified
AnnounceUncertified(announce) ==
    \/ Uncertified(announce.prev)
    \/ \E k \in DOMAIN announce.merged : Uncertified(announce.merged[k])

\* C34: a server signs without checking certification: for an announce whose prev or
\* merged clocks carry a non-default plain with an empty or invalid cert, the handler
\* returns Ok and submits the signing task for prev.plain.update(plains of merged, id)
\* all the same, and the worker sends the client a reply that verifies under the
\* server's key
C34_SignsUncertified ==
    [][/\ \A d \in pending :
            (/\ AnnounceUncertified(net[d[2]].message)
             /\ result'.op = "RecvAnnounce"
             /\ pending' = pending \ {d})
                => /\ result'.value = "Ok"
                   /\ crypto_worker' =
                        crypto_worker (+) SetToBag({ExpectedTask(d[1], net[d[2]].message)})
       /\ \A task \in BagToSet(crypto_worker) :
            (/\ \E k \in DOMAIN net :
                    /\ AnnounceUncertified(net[k].message)
                    /\ task = ExpectedTask(task.server, net[k].message)
             /\ result'.op = "WorkerSign"
             /\ crypto_worker' = crypto_worker (-) SetToBag({task}))
                => \E m \in BagToSet(inbox') :
                      /\ inbox' = inbox (+) SetToBag({m})
                      /\ m.message.inner = task.announce_ok
                      /\ CryptoVerify(VerifierCrypto, task.server, m.message) = "Ok"]_vars

\* the client holds a correctly signed AnnounceOk whose plain derives from a prev that
\* nobody certified
C34_Witness ==
    \E k \in DOMAIN net, m \in BagToSet(inbox) :
        /\ net[k].message.prev = UncertifiedClock
        /\ m.message.inner.plain =
               PlainUpdate(UncertifiedClock.plain,
                           [j \in 1..Len(net[k].message.merged) |-> net[k].message.merged[j].plain],
                           net[k].message.id)
        /\ m.message.inner.plain # PlainUpdate(DefaultVersion, <<>>, net[k].message.id)
        /\ CryptoVerify(VerifierCrypto, m.message.inner.signer_id, m.message) = "Ok"

----------------------------------------------------------------------------
(* Claims about scenario S1, checked under SpecS1 *)

\* the clock S1 expects: (7, clock) with the given cert size and plain default.update([], 7)
S1Upcall(size) ==
    /\ upcall[1][1] = 7
    /\ Len(upcall[1][2].cert) = size
    /\ upcall[1][2].plain = PlainUpdate(DefaultVersion, <<>>, 7)

\* C6 as stated: the client upcalls (7, clock) after the 3rd reply, |clock.cert| = 3 and
\* clock.plain = default.update([], 7); replies arriving after the upcall are discarded.
C6_S1ThirdReply ==
    /\ Len(upcall) >= 1 <=> S1Received >= 3
    /\ Len(upcall) >= 1 => S1Upcall(3)
    /\ Len(upcall) <= 1
    /\ S1Received >= 3 => working_announces = <<>>

\* C6 as amended: the client upcalls (7, clock) after the 2nd reply (f + 1 replies),
\* |clock.cert| = 2 and clock.plain = default.update([], 7); replies arriving after the
\* upcall are discarded.
C6_S1SecondReply ==
    /\ Len(upcall) >= 1 <=> S1Received >= 2
    /\ Len(upcall) >= 1 => S1Upcall(2)
    /\ Len(upcall) <= 1
    /\ S1Received >= 2 => working_announces = <<>>

\* C6 witness: all four replies were handled, the last one discarded as late
C6_Witness ==
    /\ S1Received = 4
    /\ Len(upcall) = 1
    /\ result.op = "RecvAnnounceOk"
    /\ result.at = "late"

\* C7: with the Plain flavor and f = 1 the clock upcalled in S1 passes verify(1, crypto).
C7_S1ClockVerifies ==
    vresult # "None" => vresult = "Ok"
====
